---- MODULE Spec2Model ----
(***************************************************************************)
(* Model of the MT5 trading engine: the reconciliation ledger              *)
(* (analysis/performance_tracker.py), order execution                      *)
(* (trading/order_manager.py), signal-to-position reconciliation           *)
(* (trading/position_manager.py), the risk gate (trading/money_manager.py) *)
(* and the polling schedulers (monitoring/*.py).                           *)
(*                                                                         *)
(* Units: prices are small integers, volumes are counted in hundredths of  *)
(* a lot, ratios are percentages.  Wall-clock times are abstracted: a      *)
(* cadence "elapsed >= interval" is a nondeterministic choice, and a close *)
(* time is tagged by where it came from (the deal or datetime.now()).      *)
(***************************************************************************)
EXTENDS Integers, Sequences, FiniteSets, TLC

(* ------------------------------ bounds -------------------------------- *)
MaxTickets == 1
MaxPos == 2

(* ------------------------- program constants -------------------------- *)
SYMBOL == "BTCUSD"
DEFAULT_VOLUME == 1
TRADE_RETCODE_DONE == 10009
RETCODE_INVALID_STOPS == 10016
RETCODE_OTHER == 10019
RETCODE_NONE == 0
DKLL_NAME == "DKLL"
MA_NAME == "MA"
RSI_NAME == "RSI"

None == "None"
NoTick == -1

Tickets == 1..MaxTickets
\* Value domains of the broker's answers.  An order is filled at OpenFills,
\* a close at CloseFills; a bid is absent (NoTick), zero or a price; a
\* closing deal carries a price and a profit.
OpenFills == {1}
CloseFills == {2}
Bids == {NoTick, 0, 2}
DealPrices == {2}
Profits == {-1, 1}
Sides == {"BUY", "SELL"}
StrategyNames == {MA_NAME, DKLL_NAME, RSI_NAME}
Retcodes == {TRADE_RETCODE_DONE, RETCODE_INVALID_STOPS, RETCODE_OTHER,
             RETCODE_NONE}

VARIABLES
    mode,               \* which scheduler loop runs
    strategy,           \* strategy_manager.current_strategy (by name)
    pc,                 \* position of the control loop
    sym_idx,            \* multi-symbol loop: index into enabled_symbols
    positions,          \* broker: live positions, ticket -> position
    nextTicket,         \* broker: next order ticket to assign
    open_positions,     \* ledger: ticket -> open trade record
    trades,             \* ledger: closed trade records, in order
    current_positions,  \* scheduler: list read by get_positions()
    close_orders,       \* scheduler: close orders still to execute
    order,              \* scheduler: the open order about to be placed
    issued_close,       \* a close was issued in the current loop cycle
    last,               \* the last operation performed and its inputs
    fn                  \* a function under evaluation: inputs and result

vars == <<mode, strategy, pc, sym_idx, positions, nextTicket, open_positions,
          trades, current_positions, close_orders, order, issued_close, last,
          fn>>

(* ------------------------------ helpers ------------------------------- *)
Min(S) == CHOOSE x \in S : \A y \in S : x <= y

RECURSIVE SortedSeq(_)
SortedSeq(S) == IF S = {} THEN <<>> ELSE <<Min(S)>> \o SortedSeq(S \ {Min(S)})

Remove(f, t) == [u \in (DOMAIN f) \ {t} |-> f[u]]

CountIn(tr, t) == Cardinality({i \in 1..Len(tr) : tr[i].ticket = t})

EmptyFn == [u \in {} |-> 0]

NoLast == [op |-> "init", ticket |-> 0, qok |-> TRUE, snapshot |-> {},
           res |-> EmptyFn, ret |-> "none", filled |-> FALSE, nreq |-> 0,
           wasopen |-> FALSE, raw |-> None, signal |-> None, orders |-> <<>>]

NoFn == [kind |-> "none"]

\* checked records that _handle_open_signal got True from
\* check_position_limits for this order.
NoOrder == [signal |-> None, symbol |-> SYMBOL, volume |-> 0, strategy |-> None,
            checked |-> FALSE]

(* --------------- ledger: TradingPerformanceTracker -------------------- *)
\* A ledger value is [open |-> ticket -> record, trades |-> sequence].
Ledger == [open |-> open_positions, trades |-> trades]

TimeNow == [src |-> "now", t |-> 0]
TimeOfDeal(t) == [src |-> "deal", t |-> t]

record_order_open(L, ticket, symbol, side, volume, open_price, strategy_name) ==
    LET trade_record == [ticket |-> ticket, symbol |-> symbol, type |-> side,
                         volume |-> volume, open_price |-> open_price,
                         strategy |-> strategy_name, status |-> "OPEN"]
    IN [open |-> [u \in (DOMAIN L.open) \cup {ticket} |->
                     IF u = ticket THEN trade_record ELSE L.open[u]],
        trades |-> L.trades]

\* Variant of record_order_close that appends the closed record but forgets
\* "del self.open_positions[ticket]".
record_order_close_keeps_open(L, ticket, close_price, close_time, has_profit, profit) ==
    IF ticket \in DOMAIN L.open
    THEN LET o == L.open[ticket]
             p == IF has_profit THEN profit
                  ELSE IF o.type = "BUY"
                       THEN (close_price - o.open_price) * o.volume
                       ELSE (o.open_price - close_price) * o.volume
             trade_record == [ticket |-> o.ticket, symbol |-> o.symbol,
                              type |-> o.type, volume |-> o.volume,
                              open_price |-> o.open_price,
                              strategy |-> o.strategy, status |-> "CLOSED",
                              close_price |-> close_price,
                              close_time |-> close_time, profit |-> p]
         IN [open |-> L.open, trades |-> Append(L.trades, trade_record)]
    ELSE L

\* profit is passed as (has_profit, profit): has_profit = FALSE is profit=None.
record_order_close(L, ticket, close_price, close_time, has_profit, profit) ==
    IF ticket \in DOMAIN L.open
    THEN LET o == L.open[ticket]
             p == IF has_profit THEN profit
                  ELSE IF o.type = "BUY"
                       THEN (close_price - o.open_price) * o.volume
                       ELSE (o.open_price - close_price) * o.volume
             trade_record == [ticket |-> o.ticket, symbol |-> o.symbol,
                              type |-> o.type, volume |-> o.volume,
                              open_price |-> o.open_price,
                              strategy |-> o.strategy, status |-> "CLOSED",
                              close_price |-> close_price,
                              close_time |-> close_time, profit |-> p]
         IN [open |-> Remove(L.open, ticket),
             trades |-> Append(L.trades, trade_record)]
    ELSE L

\* One pass of the "for ticket in closed_tickets" loop body.  deal.kind says
\* what history_deals_get(ticket=ticket) gave: "none" (None or empty),
\* "out" (a deal with entry DEAL_ENTRY_OUT, whose price, time and profit
\* the deal record carries) or "noout" (deals, none of them a closing one).
\* bid is _get_current_price(symbol): tick.bid, or NoTick when
\* symbol_info_tick returned nothing.
reconcile_ticket(L, ticket, deal, bid) ==
    IF deal.kind # "none"
    THEN \* history_deals is non-empty: look for a DEAL_ENTRY_OUT deal
         IF deal.kind = "out"
         THEN record_order_close(L, ticket, deal.price, TimeOfDeal(deal.time),
                                 TRUE, deal.profit)
         ELSE L
    ELSE \* no history: estimate from the current price
         IF bid # NoTick /\ bid # 0
         THEN record_order_close(L, ticket, bid, TimeNow, FALSE, 0)
         ELSE record_order_close(L, ticket, L.open[ticket].open_price,
                                 TimeNow, FALSE, 0)

RECURSIVE reconcile_all(_, _, _, _)
reconcile_all(L, closed_tickets, hist, bids) ==
    IF closed_tickets = <<>> THEN L
    ELSE LET t == Head(closed_tickets)
         IN reconcile_all(reconcile_ticket(L, t, hist[t], bids[t]),
                          Tail(closed_tickets), hist, bids)

\* mt5.positions_get() gives None when the query fails, else the live
\* positions; both None and the empty tuple are falsy.
current_tickets_of(qok) == IF qok THEN DOMAIN positions ELSE {}

update_positions_from_mt5(L, qok, hist, bids) ==
    LET current_tickets == current_tickets_of(qok)
        closed_tickets == SortedSeq((DOMAIN L.open) \ current_tickets)
    IN reconcile_all(L, closed_tickets, hist, bids)

(* ------------- signal-to-position: position_manager.py ---------------- *)
\* get_positions(symbol): [] when positions_get returns None, else the list
\* of live positions of that symbol in ticket order.
get_positions(qok, symbol) ==
    IF ~qok THEN <<>>
    ELSE LET ts == SortedSeq({t \in DOMAIN positions :
                                 positions[t].symbol = symbol})
         IN [i \in 1..Len(ts) |-> positions[ts[i]]]

\* DKLLStrategy.calculate_indicators, last line: DL = DK + LL.
DKValues == {-1, 0, 1}
LLValues == {-1, 1}
DL(dk, ll) == dk + ll

\* max(self.params.values())
MaxOf(params) ==
    CHOOSE v \in {params[k] : k \in DOMAIN params} :
        \A k \in DOMAIN params : params[k] <= v

\* Variant of the length test without the five-bar margin.
enough_bars_no_margin(n_bars, params) ==
    ~(n_bars < MaxOf(params))

\* The length test of DKLLStrategy.generate_signal:
\* len(df) < max(self.params.values()) + 5 returns None.
enough_bars(n_bars, params) ==
    ~(n_bars < MaxOf(params) + 5)

\* DKLLStrategy.generate_signal; enough = the frame has at least
\* max(params) + 5 bars.
DKLL_generate_signal(enough, dl_value) ==
    IF ~enough THEN None
    ELSE IF dl_value = 2 THEN "BUY"
    ELSE IF dl_value = -2 THEN "SELL"
    ELSE None

\* strategy_manager.generate_signal: dispatch on the current strategy; the
\* moving-average and RSI signals are taken as given (sig_in).
generate_signal(strategy_name, enough, dl_value, sig_in) ==
    IF strategy_name = DKLL_NAME THEN DKLL_generate_signal(enough, dl_value)
    ELSE sig_in

\* Variant of the DKLL exit test with strict comparisons.
dkll_should_close_strict(pos, dl_value) ==
    IF pos.type = "BUY" THEN dl_value < 0
    ELSE IF pos.type = "SELL" THEN dl_value > 0
    ELSE FALSE

dkll_should_close(pos, dl_value) ==
    IF pos.type = "BUY" THEN dl_value <= 0
    ELSE IF pos.type = "SELL" THEN dl_value >= 0
    ELSE FALSE

\* Variant of the reverse-signal test that only recognises a long position
\* reversed by a SELL signal.
is_reverse_signal_long_only(pos, sig) ==
    pos.type = "BUY" /\ sig = "SELL"

is_reverse_signal(pos, sig) ==
    \/ (pos.type = "BUY" /\ sig = "SELL")
    \/ (pos.type = "SELL" /\ sig = "BUY")

close_order_of(pos, reason) ==
    [ticket |-> pos.ticket, symbol |-> pos.symbol, reason |-> reason]

RECURSIVE dkll_close_orders(_, _)
dkll_close_orders(cur, dl_value) ==
    IF cur = <<>> THEN <<>>
    ELSE (IF dkll_should_close(Head(cur), dl_value)
          THEN <<close_order_of(Head(cur), "dkll")>> ELSE <<>>)
         \o dkll_close_orders(Tail(cur), dl_value)

RECURSIVE reverse_close_orders(_, _)
reverse_close_orders(cur, sig) ==
    IF cur = <<>> THEN <<>>
    ELSE (IF is_reverse_signal(Head(cur), sig)
          THEN <<close_order_of(Head(cur), "reverse")>> ELSE <<>>)
         \o reverse_close_orders(Tail(cur), sig)

\* Variant of check_signal_with_positions that returns the signal next to
\* the close orders.
check_signal_with_positions_keeps_signal(raised, strategy_name, enough, dl_value, sig_in, cur) ==
    IF raised THEN [signal |-> None, close_orders |-> <<>>]
    ELSE LET sig == generate_signal(strategy_name, enough, dl_value, sig_in)
             orders == IF strategy_name = DKLL_NAME
                       THEN dkll_close_orders(cur, dl_value)
                       ELSE IF sig # None /\ Len(cur) > 0
                            THEN reverse_close_orders(cur, sig)
                            ELSE <<>>
         IN IF Len(cur) = 0 THEN [signal |-> sig, close_orders |-> <<>>]
            ELSE [signal |-> sig, close_orders |-> orders]

\* check_signal_with_positions: raised = calculate_indicators or
\* generate_signal threw; the result is the pair (signal, close_orders).
check_signal_with_positions(raised, strategy_name, enough, dl_value, sig_in, cur) ==
    IF raised THEN [signal |-> None, close_orders |-> <<>>]
    ELSE LET sig == generate_signal(strategy_name, enough, dl_value, sig_in)
             orders == IF strategy_name = DKLL_NAME
                       THEN dkll_close_orders(cur, dl_value)
                       ELSE IF sig # None /\ Len(cur) > 0
                            THEN reverse_close_orders(cur, sig)
                            ELSE <<>>
         IN IF Len(cur) = 0 THEN [signal |-> sig, close_orders |-> <<>>]
            ELSE IF orders # <<>>
                 THEN [signal |-> None, close_orders |-> orders]
                 ELSE [signal |-> sig, close_orders |-> <<>>]

(* ------------------ order execution: order_manager.py ----------------- *)
Max2(a, b) == IF a >= b THEN a ELSE b
Max3(a, b, c) == Max2(a, Max2(b, c))

\* Stop distances of place_order, in points.
min_distance(stops_level, freeze_level) == Max3(stops_level, freeze_level, 1000)
sl_distance(md) == Max2(md * 2, 5000)
tp_distance(md) == Max2(md * 3, 10000)

\* Variant of the first request that attaches stops for every strategy.
first_request_always_stops(symbol, side, volume, price, strategy_name, stops_level, freeze_level) ==
    LET md == min_distance(stops_level, freeze_level)
    IN [symbol |-> symbol, type |-> side, volume |-> volume, price |-> price,
        position |-> 0,
        sl |-> sl_distance(md) >= md,
        tp |-> tp_distance(md) >= md]

\* The first request place_order builds.
first_request(symbol, side, volume, price, strategy_name, stops_level, freeze_level) ==
    LET use_stop_loss == strategy_name # DKLL_NAME
        use_take_profit == strategy_name # DKLL_NAME
        md == min_distance(stops_level, freeze_level)
        sl0 == sl_distance(md)
        tp0 == tp_distance(md)
        actual_sl == IF sl0 < md THEN md * 2 ELSE sl0
        actual_tp == IF tp0 < md THEN md * 3 ELSE tp0
    IN [symbol |-> symbol, type |-> side, volume |-> volume, price |-> price,
        position |-> 0,
        sl |-> (use_stop_loss \/ use_take_profit) /\ use_stop_loss
                 /\ actual_sl >= md,
        tp |-> (use_stop_loss \/ use_take_profit) /\ use_take_profit
                 /\ actual_tp >= md]

simple_request(symbol, side, volume, price) ==
    [symbol |-> symbol, type |-> side, volume |-> volume, price |-> price,
     position |-> 0, sl |-> FALSE, tp |-> FALSE]

clamp_volume(volume, min_volume, max_volume) ==
    IF volume < min_volume THEN min_volume
    ELSE IF volume > max_volume THEN max_volume
    ELSE volume

\* Broker inputs of one place_order call.  rc1/rc2 are the retcodes of the
\* first and of the retry order_send; fill is result.price.
OrderInputs == [info_ok : BOOLEAN, tick_ok : BOOLEAN, price : OpenFills,
                min_volume : {1}, max_volume : {2},
                stops_level : {0, 3000}, rc1 : Retcodes, rc2 : Retcodes,
                fill : OpenFills]

\* place_order as a function of its inputs: the value returned ("raise"
\* when order_send gave no result object and result.retcode threw), the
\* requests sent in order, and whether record_order_open was called.
po_result(ret, requests, recorded, volume) ==
    [ret |-> ret, requests |-> requests, recorded |-> recorded,
     volume |-> volume]

\* Variant of place_order whose stopless retry returns True without calling
\* record_order_open.
place_order_retry_unrecorded(symbol, direction, volume0, strategy_name, in) ==
    LET volume == clamp_volume(volume0, in.min_volume, in.max_volume)
        req1 == first_request(symbol, direction, volume, in.price,
                              strategy_name, in.stops_level, 0)
        req2 == simple_request(symbol, direction, volume, in.price)
        use_stops == strategy_name # DKLL_NAME
    IN IF ~in.info_ok THEN po_result("False", <<>>, FALSE, volume)
       ELSE IF ~in.tick_ok THEN po_result("False", <<>>, FALSE, volume)
       ELSE IF in.rc1 = RETCODE_NONE THEN
           po_result("raise", <<req1>>, FALSE, volume)
       ELSE IF in.rc1 # TRADE_RETCODE_DONE THEN
           IF in.rc1 = RETCODE_INVALID_STOPS /\ use_stops THEN
               IF in.rc2 = RETCODE_NONE
               THEN po_result("raise", <<req1, req2>>, FALSE, volume)
               ELSE IF in.rc2 = TRADE_RETCODE_DONE
               THEN po_result("True", <<req1, req2>>, FALSE, volume)
               ELSE po_result("False", <<req1, req2>>, FALSE, volume)
           ELSE po_result("False", <<req1>>, FALSE, volume)
       ELSE po_result("True", <<req1>>, TRUE, volume)

\* Variant of place_order that retries without stops after any failure
\* retcode.
place_order_retries_any_failure(symbol, direction, volume0, strategy_name, in) ==
    LET volume == clamp_volume(volume0, in.min_volume, in.max_volume)
        req1 == first_request(symbol, direction, volume, in.price,
                              strategy_name, in.stops_level, 0)
        req2 == simple_request(symbol, direction, volume, in.price)
        use_stops == strategy_name # DKLL_NAME
    IN IF ~in.info_ok THEN po_result("False", <<>>, FALSE, volume)
       ELSE IF ~in.tick_ok THEN po_result("False", <<>>, FALSE, volume)
       ELSE IF in.rc1 = RETCODE_NONE THEN
           po_result("raise", <<req1>>, FALSE, volume)
       ELSE IF in.rc1 # TRADE_RETCODE_DONE THEN
           IF use_stops THEN
               IF in.rc2 = RETCODE_NONE
               THEN po_result("raise", <<req1, req2>>, FALSE, volume)
               ELSE IF in.rc2 = TRADE_RETCODE_DONE
               THEN po_result("True", <<req1, req2>>, TRUE, volume)
               ELSE po_result("False", <<req1, req2>>, FALSE, volume)
           ELSE po_result("False", <<req1>>, FALSE, volume)
       ELSE po_result("True", <<req1>>, TRUE, volume)

place_order(symbol, direction, volume0, strategy_name, in) ==
    LET volume == clamp_volume(volume0, in.min_volume, in.max_volume)
        req1 == first_request(symbol, direction, volume, in.price,
                              strategy_name, in.stops_level, 0)
        req2 == simple_request(symbol, direction, volume, in.price)
        use_stops == strategy_name # DKLL_NAME
    IN IF ~in.info_ok THEN po_result("False", <<>>, FALSE, volume)
       ELSE IF ~in.tick_ok THEN po_result("False", <<>>, FALSE, volume)
       ELSE IF in.rc1 = RETCODE_NONE THEN
           po_result("raise", <<req1>>, FALSE, volume)
       ELSE IF in.rc1 # TRADE_RETCODE_DONE THEN
           IF in.rc1 = RETCODE_INVALID_STOPS /\ use_stops THEN
               IF in.rc2 = RETCODE_NONE
               THEN po_result("raise", <<req1, req2>>, FALSE, volume)
               ELSE IF in.rc2 = TRADE_RETCODE_DONE
               THEN po_result("True", <<req1, req2>>, TRUE, volume)
               ELSE po_result("False", <<req1, req2>>, FALSE, volume)
           ELSE po_result("False", <<req1>>, FALSE, volume)
       ELSE po_result("True", <<req1>>, TRUE, volume)

\* The broker fills an order exactly when a request it received came back
\* with the done retcode.
broker_filled(requests, in) ==
    \/ (Len(requests) >= 1 /\ in.rc1 = TRADE_RETCODE_DONE)
    \/ (Len(requests) >= 2 /\ in.rc2 = TRADE_RETCODE_DONE)

\* close_position as a function of its inputs: found = the ticket is in
\* the positions_get() result; rc = retcode of the close request.
CloseInputs == [qok : BOOLEAN, tick_ok : BOOLEAN, rc : Retcodes,
                fill : CloseFills, profit : Profits]

close_position(ticket, in) ==
    LET found == in.qok /\ ticket \in DOMAIN positions
    IN IF ~found THEN [ret |-> "False", sent |-> FALSE, recorded |-> FALSE]
       ELSE IF ~in.tick_ok
       THEN [ret |-> "False", sent |-> FALSE, recorded |-> FALSE]
       ELSE IF in.rc = RETCODE_NONE
       THEN [ret |-> "raise", sent |-> TRUE, recorded |-> FALSE]
       ELSE IF in.rc # TRADE_RETCODE_DONE
       THEN [ret |-> "False", sent |-> TRUE, recorded |-> FALSE]
       ELSE [ret |-> "True", sent |-> TRUE, recorded |-> TRUE]

(* -------------------- money manager: money_manager.py ----------------- *)
\* TRADING_SYMBOLS of config/settings.py; position_ratio in percent,
\* volumes in hundredths of a lot.
TRADING_SYMBOLS ==
    [s \in {"BTCUSD", "ETHUSD", "XAUUSD"} |->
       IF s = "BTCUSD"
       THEN [enabled |-> TRUE, position_ratio |-> 40, max_positions |-> 2,
             volume_per_trade |-> 1, max_volume |-> 10, strategy |-> MA_NAME]
       ELSE IF s = "ETHUSD"
       THEN [enabled |-> TRUE, position_ratio |-> 30, max_positions |-> 2,
             volume_per_trade |-> 1, max_volume |-> 5, strategy |-> DKLL_NAME]
       ELSE [enabled |-> TRUE, position_ratio |-> 30, max_positions |-> 1,
             volume_per_trade |-> 1, max_volume |-> 3, strategy |-> RSI_NAME]]

\* MONEY_MANAGEMENT of config/settings.py, ratios in percent.
MONEY_MANAGEMENT ==
    [max_risk_per_trade |-> 2, max_total_risk |-> 10,
     min_free_margin_ratio |-> 50, use_dynamic_volume |-> TRUE]

Abs(x) == IF x < 0 THEN 0 - x ELSE x

RECURSIVE SumVolume(_)
SumVolume(ps) == IF ps = <<>> THEN 0 ELSE Head(ps).volume + SumVolume(Tail(ps))

\* check_position_limits.  cfg.known = FALSE is get_symbol_config giving
\* None; ps is the positions_get(symbol=symbol) list ([] when the query
\* gave None); acc.ok = FALSE is account_info() giving None.  The result is
\* "True", "False" or "raise" (ZeroDivisionError on a zero balance).
margin_insufficient(money, acc) ==
    acc.margin_free * 100 < acc.margin * money.min_free_margin_ratio

\* Variant of the exposure test without abs(): only a gain trips it.
risk_exceeded_signed(money, acc) ==
    (acc.equity - acc.balance) * 100 > Abs(acc.balance) * money.max_total_risk

risk_exceeded(money, acc) ==
    Abs(acc.equity - acc.balance) * 100 > Abs(acc.balance) * money.max_total_risk

\* Variant of check_position_limits whose count test is ">" instead of ">=".
check_position_limits_off_by_one(cfg, money, ps, acc) ==
    IF ~cfg.known \/ ~cfg.enabled THEN "False"
    ELSE IF Len(ps) > cfg.max_positions THEN "False"
    ELSE IF SumVolume(ps) >= cfg.max_volume THEN "False"
    ELSE IF acc.ok
         THEN IF margin_insufficient(money, acc) THEN "False"
              ELSE IF acc.margin > 0
                   THEN IF acc.balance = 0 THEN "raise"
                        ELSE IF risk_exceeded(money, acc) THEN "False"
                        ELSE "True"
                   ELSE "True"
         ELSE "True"

check_position_limits(cfg, money, ps, acc) ==
    IF ~cfg.known \/ ~cfg.enabled THEN "False"
    ELSE IF Len(ps) >= cfg.max_positions THEN "False"
    ELSE IF SumVolume(ps) >= cfg.max_volume THEN "False"
    ELSE IF acc.ok
         THEN IF margin_insufficient(money, acc) THEN "False"
              ELSE IF acc.margin > 0
                   THEN IF acc.balance = 0 THEN "raise"
                        ELSE IF risk_exceeded(money, acc) THEN "False"
                        ELSE "True"
                   ELSE "True"
         ELSE "True"

\* should_close_position: a loss larger than max_risk_per_trade of the
\* balance.
should_close_position(money, profit, acc) ==
    IF acc.ok /\ acc.balance > 0
    THEN profit < 0 /\ Abs(profit) * 100 > acc.balance * money.max_risk_per_trade
    ELSE FALSE

\* Python's round(): round half to even, for a non-negative quotient n/d.
RoundHalfEven(n, d) ==
    LET q == n \div d
        r == n % d
    IN IF 2 * r < d THEN q
       ELSE IF 2 * r > d THEN q + 1
       ELSE IF q % 2 = 0 THEN q ELSE q + 1

Min2(a, b) == IF a <= b THEN a ELSE b

\* Variant of calculate_position_size that returns the dynamic volume
\* without the per-trade cap.
calculate_position_size_uncapped(cfg, money, account_balance, info) ==
    IF ~cfg.known \/ ~cfg.enabled THEN 0
    ELSE IF money.use_dynamic_volume /\ info.ok
    THEN LET allocated == account_balance * cfg.position_ratio
             cap == (cfg.max_volume * 100) \div cfg.max_positions
             dyn0 == Min2(allocated, cap)
             dyn1 == Max2(dyn0, info.volume_min * 100)
         IN RoundHalfEven(dyn1, info.volume_step * 100) * info.volume_step
    ELSE cfg.volume_per_trade

\* calculate_position_size, in hundredths of a lot.  info.ok = FALSE is
\* symbol_info() giving None.  Intermediate values are scaled by 100 so
\* that balance * position_ratio * 0.01 stays an integer.
calculate_position_size(cfg, money, account_balance, info) ==
    IF ~cfg.known \/ ~cfg.enabled THEN 0
    ELSE IF money.use_dynamic_volume /\ info.ok
    THEN LET allocated == account_balance * cfg.position_ratio
             cap == (cfg.max_volume * 100) \div cfg.max_positions
             dyn0 == Min2(allocated, cap)
             dyn1 == Max2(dyn0, info.volume_min * 100)
             dyn == RoundHalfEven(dyn1, info.volume_step * 100)
                       * info.volume_step
         IN Min2(dyn, cfg.volume_per_trade)
    ELSE cfg.volume_per_trade

ConfigOf(symbol) ==
    IF symbol \in DOMAIN TRADING_SYMBOLS
    THEN [known |-> TRUE] @@ TRADING_SYMBOLS[symbol]
    ELSE [known |-> FALSE, enabled |-> FALSE, position_ratio |-> 0,
          max_positions |-> 0, volume_per_trade |-> 0, max_volume |-> 0,
          strategy |-> None]

\* get_enabled_symbols, in the order of the configuration.
get_enabled_symbols ==
    SelectSeq(<<"BTCUSD", "ETHUSD", "XAUUSD">>,
              LAMBDA s : TRADING_SYMBOLS[s].enabled)

(* ============================ the scheduler =========================== *)
SingleModes == {"auto", "continuous", "timed"}
Running == pc \notin {"done", "crashed"}

\* What one history_deals_get / _get_current_price pair can give for a
\* ticket: no history and some bid, or history without or with a closing
\* deal.
NoDeal == [kind |-> "none", price |-> 2, profit |-> 1, time |-> 1]
Resolutions ==
    {[deal |-> NoDeal, bid |-> b] : b \in Bids}
    \cup {[deal |-> [kind |-> "noout", price |-> 2, profit |-> 1, time |-> 1],
           bid |-> NoTick]}
    \cup {[deal |-> [kind |-> "out", price |-> p, profit |-> q, time |-> 1],
           bid |-> NoTick] : p \in DealPrices, q \in Profits}

\* One call of update_positions_from_mt5 with broker answers (qok, res).
DoUpdate(qok, res) ==
    LET L == update_positions_from_mt5(Ledger, qok,
                 [t \in DOMAIN res |-> res[t].deal],
                 [t \in DOMAIN res |-> res[t].bid])
    IN /\ open_positions' = L.open
       /\ trades' = L.trades
       /\ last' = [NoLast EXCEPT !.op = "update", !.qok = qok,
                      !.snapshot = current_tickets_of(qok), !.res = res]

UpdateCall ==
    \E qok \in BOOLEAN :
      \E res \in [(DOMAIN open_positions) \ current_tickets_of(qok)
                     -> Resolutions] :
        DoUpdate(qok, res)

\* The state after construction: no live position, an empty ledger.
InitRest ==
    /\ pc = "top"
    /\ sym_idx = 1
    /\ positions = EmptyFn
    /\ nextTicket = 1
    /\ open_positions = EmptyFn
    /\ trades = <<>>
    /\ current_positions = <<>>
    /\ close_orders = <<>>
    /\ order = NoOrder
    /\ issued_close = FALSE
    /\ last = NoLast

Init ==
    /\ mode \in SingleModes
    /\ strategy \in StrategyNames
    /\ fn = NoFn
    /\ InitRest

\* get_real_time_price gave no tick: the iteration is skipped.
FetchFailed ==
    /\ pc = "top" /\ mode \in SingleModes
    /\ last' = [NoLast EXCEPT !.op = "fetch_failed"]
    /\ UNCHANGED <<fn, mode, strategy, pc, sym_idx, positions, nextTicket,
                   open_positions, trades, current_positions, close_orders,
                   order, issued_close>>

\* A tick arrived; current_positions = get_positions().
FetchPrice ==
    /\ pc = "top" /\ mode \in SingleModes
    /\ \E qok \in BOOLEAN :
         /\ current_positions' = get_positions(qok, SYMBOL)
         /\ last' = [NoLast EXCEPT !.op = "fetch"]
    /\ pc' = IF mode = "continuous" THEN "signal" ELSE "recon"
    /\ issued_close' = FALSE
    /\ UNCHANGED <<fn, mode, strategy, sym_idx, positions, nextTicket,
                   open_positions, trades, close_orders, order>>

\* The statistics cadence has not elapsed.
SkipReconcile ==
    /\ pc = "recon"
    /\ pc' = "signal"
    /\ last' = [NoLast EXCEPT !.op = "skip_update"]
    /\ UNCHANGED <<fn, mode, strategy, sym_idx, positions, nextTicket,
                   open_positions, trades, current_positions, close_orders,
                   order, issued_close>>

\* The reconciliation tick of run_automated_trading / run_timed_monitoring.
ReconcileTick ==
    /\ pc = "recon"
    /\ UpdateCall
    /\ pc' = "signal"
    /\ UNCHANGED <<fn, mode, strategy, sym_idx, positions, nextTicket,
                   current_positions, close_orders, order, issued_close>>

\* Inputs of one signal evaluation: whether the indicator pass threw, and
\* what the frame holds (DK/LL of the last bar for DKLL, the strategy's own
\* signal for the other two).
SignalInputs(strategy_name) ==
    IF strategy_name = DKLL_NAME
    THEN [raised : BOOLEAN, enough : BOOLEAN, dk : DKValues, ll : LLValues,
          sig_in : {None}]
    ELSE [raised : BOOLEAN, enough : {TRUE}, dk : {0}, ll : {1},
          sig_in : {"BUY", "SELL", None}]

\* Where the symbol loop of the multi-symbol monitor goes after symbol i.
AfterSymbol(i) ==
    IF i + 1 > Len(get_enabled_symbols)
    THEN /\ pc' = "risk" /\ sym_idx' = 1
    ELSE /\ pc' = "sym" /\ sym_idx' = i + 1

\* The scheduler's use of (signal, close_orders): close orders first,
\* otherwise an open when flat.
\* Variant of the dispatch that opens on any signal, whatever the position
\* list holds.
scheduler_branch_ignores_positions(r, cur) ==
    IF Len(r.close_orders) > 0 THEN "close"
    ELSE IF r.signal # None THEN "open"
    ELSE "none"

scheduler_branch(r, cur) ==
    IF r.close_orders # <<>> THEN "close"
    ELSE IF r.signal # None /\ Len(cur) = 0 THEN "open"
    ELSE "none"

\* The signal cadence has not elapsed, or copy_rates_from_pos gave None.
SkipSignal ==
    /\ pc = "signal"
    /\ pc' = "top"
    /\ last' = [NoLast EXCEPT !.op = "skip_signal"]
    /\ UNCHANGED <<fn, mode, strategy, sym_idx, positions, nextTicket,
                   open_positions, trades, current_positions, close_orders,
                   order, issued_close>>

\* run_automated_trading / run_timed_monitoring: evaluate and dispatch.
SignalCheck ==
    /\ pc = "signal" /\ mode \in {"auto", "timed"}
    /\ \E in \in SignalInputs(strategy) :
         LET dl == DL(in.dk, in.ll)
             r == check_signal_with_positions(in.raised, strategy, in.enough,
                                              dl, in.sig_in, current_positions)
             b == scheduler_branch(r, current_positions)
         IN /\ close_orders' = IF b = "close" THEN r.close_orders ELSE <<>>
            /\ order' = IF b = "open"
                        THEN [signal |-> r.signal, symbol |-> SYMBOL,
                              volume |-> DEFAULT_VOLUME, strategy |-> strategy,
                              checked |-> FALSE]
                        ELSE NoOrder
            /\ pc' = IF b = "close" THEN "close"
                     ELSE IF b = "open" THEN "order" ELSE "top"
            /\ last' = [NoLast EXCEPT !.op = "check_signal",
                           !.ret = IF in.raised THEN "raise" ELSE "ok",
                           !.raw = IF in.raised THEN None
                                   ELSE generate_signal(strategy, in.enough,
                                                        dl, in.sig_in),
                           !.signal = r.signal, !.orders = r.close_orders]
    /\ UNCHANGED <<fn, mode, strategy, sym_idx, positions, nextTicket,
                   open_positions, trades, current_positions, issued_close>>

\* run_continuous_monitoring: generate_signal only, no exit logic; an
\* exception of the indicator pass is not caught by the loop.
ContinuousSignal ==
    /\ pc = "signal" /\ mode = "continuous"
    /\ \E in \in SignalInputs(strategy) :
         LET dl == DL(in.dk, in.ll)
             sig == generate_signal(strategy, in.enough, dl, in.sig_in)
             open == ~in.raised /\ sig # None /\ Len(current_positions) = 0
         IN /\ order' = IF open
                        THEN [signal |-> sig, symbol |-> SYMBOL,
                              volume |-> DEFAULT_VOLUME, strategy |-> strategy,
                              checked |-> FALSE]
                        ELSE NoOrder
            /\ pc' = IF in.raised THEN "crashed"
                     ELSE IF open THEN "order" ELSE "top"
            /\ last' = [NoLast EXCEPT !.op = "generate_signal",
                           !.ret = IF in.raised THEN "raise" ELSE "ok"]
    /\ UNCHANGED <<fn, mode, strategy, sym_idx, positions, nextTicket,
                   open_positions, trades, current_positions, close_orders,
                   issued_close>>

\* The effect of one close_position(ticket, ...) call on broker and ledger.
DoClose(ticket, in, r) ==
    LET L == IF r.recorded
             THEN record_order_close(Ledger, ticket, in.fill, TimeNow,
                                     TRUE, in.profit)
             ELSE Ledger
    IN /\ positions' = IF r.sent /\ in.rc = TRADE_RETCODE_DONE
                       THEN Remove(positions, ticket) ELSE positions
       /\ open_positions' = L.open
       /\ trades' = L.trades
       /\ last' = [NoLast EXCEPT !.op = "close_position", !.ticket = ticket,
                      !.ret = r.ret,
                      !.wasopen = ticket \in DOMAIN open_positions]

\* One iteration of "for close_order in close_orders".
CloseStep ==
    /\ pc = "close" /\ close_orders # <<>>
    /\ \E in \in CloseInputs :
         LET ticket == Head(close_orders).ticket
             r == close_position(ticket, in)
         IN /\ DoClose(ticket, in, r)
            /\ IF r.ret = "raise"
               THEN /\ close_orders' = <<>>
                    /\ IF mode = "multi" THEN AfterSymbol(sym_idx)
                       ELSE pc' = "crashed" /\ sym_idx' = sym_idx
               ELSE /\ close_orders' = Tail(close_orders)
                    /\ IF Tail(close_orders) # <<>>
                       THEN pc' = "close" /\ sym_idx' = sym_idx
                       ELSE IF mode = "multi" THEN AfterSymbol(sym_idx)
                       ELSE pc' = "top" /\ sym_idx' = sym_idx
    /\ issued_close' = TRUE
    /\ UNCHANGED <<fn, mode, strategy, nextTicket, current_positions, order>>

\* place_order for the pending open order, with the broker's answers.
OrderStep ==
    /\ pc = "order"
    /\ \E in \in OrderInputs :
         LET r == place_order(order.symbol, order.signal, order.volume,
                              order.strategy, in)
             filled == broker_filled(r.requests, in)
             L == IF r.recorded
                  THEN record_order_open(Ledger, nextTicket, order.symbol,
                                         order.signal, r.volume, in.fill,
                                         order.strategy)
                  ELSE Ledger
         IN /\ filled => nextTicket <= MaxTickets
            /\ positions' = IF filled
                            THEN positions @@
                                 (nextTicket :>
                                    [ticket |-> nextTicket,
                                     symbol |-> order.symbol,
                                     type |-> order.signal,
                                     volume |-> r.volume,
                                     price_open |-> in.fill])
                            ELSE positions
            /\ nextTicket' = IF filled THEN nextTicket + 1 ELSE nextTicket
            /\ open_positions' = L.open
            /\ trades' = L.trades
            /\ last' = [NoLast EXCEPT !.op = "place_order",
                           !.ticket = nextTicket, !.ret = r.ret,
                           !.filled = filled, !.nreq = Len(r.requests)]
            /\ IF mode = "multi" THEN AfterSymbol(sym_idx)
               ELSE /\ pc' = IF r.ret = "raise" THEN "crashed" ELSE "top"
                    /\ sym_idx' = sym_idx
    /\ order' = NoOrder
    /\ UNCHANGED <<fn, mode, strategy, current_positions, close_orders,
                   issued_close>>

(* ---------------------- multi-symbol monitor -------------------------- *)
Accounts == [ok : BOOLEAN, balance : {0, 10}, equity : {8, 10},
             margin : {0, 10}, margin_free : {0, 10}]
SymbolInfos == [ok : BOOLEAN, volume_min : {1}, volume_step : {1, 10}]

MultiTop ==
    /\ pc = "top" /\ mode = "multi"
    /\ pc' = "sym" /\ sym_idx' = 1
    /\ last' = [NoLast EXCEPT !.op = "cycle"]
    /\ UNCHANGED <<fn, mode, strategy, positions, nextTicket, open_positions,
                   trades, current_positions, close_orders, order,
                   issued_close>>

\* No tick for the symbol, the signal cadence has not elapsed, or
\* copy_rates_from_pos gave None: nothing is done for this symbol.
MultiSkip ==
    /\ pc = "sym"
    /\ AfterSymbol(sym_idx)
    /\ last' = [NoLast EXCEPT !.op = "skip_symbol"]
    /\ UNCHANGED <<fn, mode, strategy, positions, nextTicket, open_positions,
                   trades, current_positions, close_orders, order,
                   issued_close>>

\* _check_symbol_signal: the symbol's configured strategy is selected,
\* positions are read, the signal is evaluated and dispatched.
MultiCheckSignal ==
    /\ pc = "sym"
    /\ LET symbol == get_enabled_symbols[sym_idx]
           sname == ConfigOf(symbol).strategy
       IN \E qok \in BOOLEAN : \E in \in SignalInputs(sname) :
            LET cur == get_positions(qok, symbol)
                dl == DL(in.dk, in.ll)
                r == check_signal_with_positions(in.raised, sname, in.enough,
                                                 dl, in.sig_in, cur)
                b == scheduler_branch(r, cur)
            IN /\ current_positions' = cur
               /\ close_orders' = IF b = "close" THEN r.close_orders ELSE <<>>
               /\ order' = IF b = "open"
                           THEN [signal |-> r.signal, symbol |-> symbol,
                                 volume |-> 0, strategy |-> sname,
                                 checked |-> FALSE]
                           ELSE NoOrder
               /\ IF b = "close" THEN pc' = "close" /\ sym_idx' = sym_idx
                  ELSE IF b = "open" THEN pc' = "limits" /\ sym_idx' = sym_idx
                  ELSE AfterSymbol(sym_idx)
               /\ last' = [NoLast EXCEPT !.op = "check_signal",
                              !.ret = IF in.raised THEN "raise" ELSE "ok",
                              !.raw = IF in.raised THEN None
                                      ELSE generate_signal(sname, in.enough,
                                                           dl, in.sig_in),
                              !.signal = r.signal, !.orders = r.close_orders]
    /\ issued_close' = FALSE
    /\ UNCHANGED <<fn, mode, strategy, positions, nextTicket, open_positions,
                   trades>>

\* _handle_open_signal, first part: the risk gate.
CheckLimits ==
    /\ pc = "limits"
    /\ LET symbol == order.symbol
       IN \E qok \in BOOLEAN : \E acc \in Accounts :
            LET can == check_position_limits(ConfigOf(symbol),
                           MONEY_MANAGEMENT, get_positions(qok, symbol), acc)
            IN /\ IF can = "True"
                  THEN /\ pc' = "size" /\ sym_idx' = sym_idx
                       /\ order' = [order EXCEPT !.checked = TRUE]
                  ELSE AfterSymbol(sym_idx) /\ order' = NoOrder
               /\ last' = [NoLast EXCEPT !.op = "check_limits", !.ret = can]
    /\ UNCHANGED <<fn, mode, strategy, positions, nextTicket, open_positions,
                   trades, current_positions, close_orders, issued_close>>

\* _handle_open_signal, second part: account_info and the sized volume.
SizeOrder ==
    /\ pc = "size"
    /\ LET symbol == order.symbol
           cfg == ConfigOf(symbol)
       IN \E acc \in Accounts : \E info \in SymbolInfos :
            LET volume == calculate_position_size(cfg, MONEY_MANAGEMENT,
                                                  acc.balance, info)
                go == acc.ok /\ volume > 0
            IN /\ IF go
                  THEN /\ pc' = "order" /\ sym_idx' = sym_idx
                       /\ order' = [order EXCEPT !.volume =
                                       Min2(volume, cfg.volume_per_trade)]
                  ELSE AfterSymbol(sym_idx) /\ order' = NoOrder
               /\ last' = [NoLast EXCEPT !.op = "size",
                              !.ret = IF go THEN "ok" ELSE "none"]
    /\ UNCHANGED <<fn, mode, strategy, positions, nextTicket, open_positions,
                   trades, current_positions, close_orders, issued_close>>

\* The risk cadence has not elapsed.
SkipRisk ==
    /\ pc = "risk"
    /\ pc' = "top"
    /\ last' = [NoLast EXCEPT !.op = "skip_risk"]
    /\ UNCHANGED <<fn, mode, strategy, sym_idx, positions, nextTicket,
                   open_positions, trades, current_positions, close_orders,
                   order, issued_close>>

\* _check_portfolio_risk: all_positions = positions_get().
RiskCheck ==
    /\ pc = "risk"
    /\ \E qok \in BOOLEAN :
         LET ts == SortedSeq(current_tickets_of(qok))
             all == [i \in 1..Len(ts) |->
                       close_order_of(positions[ts[i]], "risk")]
         IN /\ close_orders' = all
            /\ pc' = IF all = <<>> THEN "top" ELSE "riskclose"
            /\ last' = [NoLast EXCEPT !.op = "risk_check"]
    /\ UNCHANGED <<fn, mode, strategy, sym_idx, positions, nextTicket,
                   open_positions, trades, current_positions, order,
                   issued_close>>

\* One iteration of "for position in all_positions": should_close_position
\* and, if it says so, close_position; an exception ends the loop.
RiskCloseStep ==
    /\ pc = "riskclose" /\ close_orders # <<>>
    /\ \E acc \in Accounts : \E profit \in Profits : \E in \in CloseInputs :
         LET ticket == Head(close_orders).ticket
             should == should_close_position(MONEY_MANAGEMENT, profit, acc)
             r == close_position(ticket, in)
         IN IF should
            THEN /\ DoClose(ticket, in, r)
                 /\ close_orders' = IF r.ret = "raise" THEN <<>>
                                    ELSE Tail(close_orders)
                 /\ pc' = IF r.ret = "raise" THEN "crashed"
                          ELSE IF Tail(close_orders) = <<>> THEN "top"
                          ELSE "riskclose"
            ELSE /\ close_orders' = Tail(close_orders)
                 /\ pc' = IF Tail(close_orders) = <<>> THEN "top"
                          ELSE "riskclose"
                 /\ last' = [NoLast EXCEPT !.op = "risk_keep",
                                !.ticket = ticket]
                 /\ UNCHANGED <<positions, open_positions, trades>>
    /\ UNCHANGED <<fn, mode, strategy, sym_idx, nextTicket, current_positions,
                   order, issued_close>>

(* --------------------------- environment ------------------------------ *)
\* The broker closes a live position on its own side (stop-loss,
\* take-profit, stop-out, or a manual close in the terminal).
BrokerSideClose ==
    /\ Running
    /\ \E t \in DOMAIN positions :
         /\ positions' = Remove(positions, t)
         /\ last' = [NoLast EXCEPT !.op = "broker_close", !.ticket = t]
    /\ UNCHANGED <<fn, mode, strategy, pc, sym_idx, nextTicket, open_positions,
                   trades, current_positions, close_orders, order,
                   issued_close>>

\* The loop ends (Ctrl+C, or end_time in the timed mode). Every mode but
\* the continuous one then runs update_positions_from_mt5 once more.
Stop ==
    /\ Running
    /\ IF mode = "continuous"
       THEN /\ last' = [NoLast EXCEPT !.op = "stop"]
            /\ UNCHANGED <<open_positions, trades>>
       ELSE UpdateCall
    /\ pc' = "done"
    /\ UNCHANGED <<fn, mode, strategy, sym_idx, positions, nextTicket,
                   current_positions, close_orders, order, issued_close>>

\* The single-symbol schedulers: run_automated_trading,
\* run_continuous_monitoring, run_timed_monitoring.
Next ==
    \/ FetchFailed
    \/ FetchPrice
    \/ SkipReconcile
    \/ ReconcileTick
    \/ SkipSignal
    \/ SignalCheck
    \/ ContinuousSignal
    \/ CloseStep
    \/ OrderStep
    \/ BrokerSideClose
    \/ Stop

Spec == Init /\ [][Next]_vars

\* The multi-symbol scheduler: MultiSymbolMonitor.run_multi_symbol_monitoring.
InitMulti ==
    /\ mode = "multi"
    /\ strategy = MA_NAME
    /\ fn = NoFn
    /\ InitRest

NextMulti ==
    \/ MultiTop
    \/ MultiSkip
    \/ MultiCheckSignal
    \/ CheckLimits
    \/ SizeOrder
    \/ CloseStep
    \/ OrderStep
    \/ SkipRisk
    \/ RiskCheck
    \/ RiskCloseStep
    \/ BrokerSideClose
    \/ Stop

SpecMulti == InitMulti /\ [][NextMulti]_vars

\* Every scheduler of the program: the three single-symbol loops and the
\* multi-symbol monitor.
InitAll == Init \/ InitMulti

NextAll ==
    \/ FetchFailed
    \/ FetchPrice
    \/ SkipReconcile
    \/ ReconcileTick
    \/ SkipSignal
    \/ SignalCheck
    \/ ContinuousSignal
    \/ MultiTop
    \/ MultiSkip
    \/ MultiCheckSignal
    \/ CheckLimits
    \/ SizeOrder
    \/ CloseStep
    \/ OrderStep
    \/ SkipRisk
    \/ RiskCheck
    \/ RiskCloseStep
    \/ BrokerSideClose
    \/ Stop

SpecAll == InitAll /\ [][NextAll]_vars

\* The loop keeps running: each step of the control loop that is enabled is
\* eventually taken; a tick eventually arrives and the statistics cadence
\* (PERFORMANCE_UPDATE_INTERVAL) eventually elapses whenever the loop comes
\* back to them.
LoopStep ==
    \/ FetchFailed
    \/ FetchPrice
    \/ SkipReconcile
    \/ ReconcileTick
    \/ SkipSignal
    \/ SignalCheck
    \/ ContinuousSignal
    \/ CloseStep
    \/ OrderStep

Fairness ==
    /\ WF_vars(LoopStep)
    /\ SF_vars(FetchPrice)
    /\ SF_vars(ReconcileTick)

FairSpec == Spec /\ Fairness

(* ============================ properties ============================== *)
ClosedTickets(tr) == {tr[i].ticket : i \in 1..Len(tr)}

\* The closed record of ticket t in tr (the first one, if there are more).
ClosedRecord(tr, t) ==
    tr[Min({i \in 1..Len(tr) : tr[i].ticket = t})]

\* C1 -- reconciliation completeness: every ticket that is open in the
\* ledger and absent from the broker's live positions is moved to Closed by
\* one update_positions_from_mt5 call, and the closed list grows by exactly
\* one record for it, whatever the deal history holds (nothing, a closing
\* deal, or deals none of which is a closing one).
C1_ReconciliationCompleteness ==
    [][last'.op = "update" =>
         \A t \in (DOMAIN open_positions) \ (DOMAIN positions) :
            /\ t \notin DOMAIN open_positions'
            /\ CountIn(trades', t) = CountIn(trades, t) + 1]_vars

\* C2 -- the ledger is never ahead of the broker: no trade is recorded
\* Closed while the broker still holds its ticket as a live position; in
\* particular an update whose positions query failed closes no trade.
C2_LedgerNeverAhead ==
    \A i \in 1..Len(trades) : trades[i].ticket \notin DOMAIN positions

\* C3 -- eventual consistency: in every scheduler mode, a ticket that is
\* open in the ledger and gone from the broker's live positions is
\* eventually closed in the ledger, as long as the loop keeps running.
C3_EventualConsistency ==
    \A t \in Tickets :
       (t \in DOMAIN open_positions /\ t \notin DOMAIN positions)
          ~> (t \notin DOMAIN open_positions \/ ~Running)

\* C4 -- the trade lifecycle is one-way and terminal: a trade becomes open
\* only through place_order's record_order_open, is closed at most once,
\* a closed record is never changed, removed, re-opened or duplicated by a
\* later close or update, and a record_order_close for a ticket that is not
\* open leaves the open set and the closed list unchanged.
C4_LifecycleOneWay ==
    [][/\ Len(trades') >= Len(trades)
       /\ SubSeq(trades', 1, Len(trades)) = trades
       /\ \A t \in ClosedTickets(trades') : CountIn(trades', t) = 1
       /\ \A t \in ClosedTickets(trades) : t \notin DOMAIN open_positions'
       /\ \A t \in ClosedTickets(trades') \ ClosedTickets(trades) :
             /\ t \in DOMAIN open_positions
             /\ ClosedRecord(trades', t).status = "CLOSED"
       /\ \A t \in (DOMAIN open_positions') \ (DOMAIN open_positions) :
             /\ last'.op = "place_order"
             /\ open_positions'[t].status = "OPEN"
       /\ (last'.op = "close_position" /\ ~last'.wasopen)
             => (open_positions' = open_positions /\ trades' = trades)]_vars

\* A close_position that the broker executed for a ticket the ledger had
\* already closed: its record_order_close found the ticket not open.
C4_Witness ==
    /\ last.op = "close_position"
    /\ last.ret = "True"
    /\ ~last.wasopen
    /\ last.ticket \in ClosedTickets(trades)

\* What the claimed fallback order gives for ticket t of record o under the
\* broker answers r: the closing deal, else the bid, else the open price
\* with a profit of zero.
C5_Expected(o, r, c) ==
    IF r.deal.kind # "none"
    THEN /\ c.close_price = r.deal.price
         /\ c.close_time = TimeOfDeal(r.deal.time)
         /\ c.profit = r.deal.profit
    ELSE IF r.bid # NoTick /\ r.bid # 0
    THEN c.close_price = r.bid
    ELSE c.close_price = o.open_price /\ c.profit = 0

\* C5 -- reconciliation fallback order: a locally-open ticket missing from
\* the broker is closed from the deal history when there is one, otherwise
\* at the current bid, otherwise at its own open price with a profit of
\* exactly zero; in no branch does the ticket stay in the open set.
C5_FallbackOrder ==
    [][last'.op = "update" =>
         \A t \in (DOMAIN last'.res) \ (DOMAIN positions) :
            /\ t \notin DOMAIN open_positions'
            /\ t \in ClosedTickets(trades')
            /\ C5_Expected(open_positions[t], last'.res[t],
                           ClosedRecord(trades', t))]_vars

\* C6 -- order fill to ledger: place_order records exactly one new Open
\* trade, keyed by the ticket the broker assigned, if and only if one of
\* its requests (the first, or the retry without stops) came back done;
\* when it returns False the open set and the closed list are unchanged.
C6_FillToLedger ==
    [][last'.op = "place_order" =>
         /\ trades' = trades
         /\ last'.filled <=> (open_positions' # open_positions)
         /\ last'.filled =>
              /\ DOMAIN open_positions' = DOMAIN open_positions \cup {last'.ticket}
              /\ last'.ticket \notin DOMAIN open_positions
              /\ last'.ticket \in (DOMAIN positions') \ (DOMAIN positions)
              /\ open_positions'[last'.ticket].ticket = last'.ticket
              /\ open_positions'[last'.ticket].status = "OPEN"
              /\ \A u \in DOMAIN open_positions :
                    open_positions'[u] = open_positions[u]
              /\ last'.ret = "True"
         /\ last'.ret = "False" => open_positions' = open_positions]_vars

\* An order filled on the retry without stops and recorded in the ledger.
C6_Witness ==
    /\ last.op = "place_order"
    /\ last.nreq = 2
    /\ last.filled
    /\ last.ticket \in DOMAIN open_positions

\* C9 -- check_signal_with_positions returns at most one of {open signal,
\* close orders}: a non-empty close-order list comes with the signal None,
\* also when the strategy's own signal is a valid opposite open signal; and
\* the scheduler places no open order in a cycle in which it issued a close.
C9_OpenXorClose ==
    /\ last.op = "check_signal" =>
          (last.orders # <<>> => last.signal = None)
    /\ pc = "order" => (close_orders = <<>> /\ ~issued_close)
    /\ last.op = "place_order" => ~issued_close
    /\ pc = "close" => order = NoOrder

\* An evaluation whose strategy signal was an open signal opposite to the
\* position held, and which returned close orders and no signal.
C9_Witness ==
    /\ last.op = "check_signal"
    /\ last.orders # <<>>
    /\ last.raw \in Sides
    /\ last.signal = None
    /\ pc = "close"

\* C12 -- place_order is called for a symbol only in a cycle whose own
\* read of the broker's position list for that symbol came back empty; in
\* the multi-symbol monitor additionally only after check_position_limits
\* returned True and with a sized volume above zero.
C12_OpenOnlyWhenFlat ==
    [][last'.op = "place_order" =>
          /\ Len(current_positions) = 0
          /\ order.signal \in Sides
          /\ mode = "multi" => (order.checked /\ order.volume > 0)]_vars

\* A request went out from the multi-symbol monitor after the gate and the
\* sizing.
C12_Witness ==
    /\ mode = "multi"
    /\ last.op = "place_order"
    /\ last.nreq > 0
    /\ last.filled

\* C25 -- an exception raised inside a scheduler sub-task (signal
\* evaluation, order placement or close, reconciliation, risk check) is
\* caught at the sub-task's boundary and never ends the control loop, in
\* the automated single-symbol loop and in the multi-symbol loop, also when
\* a broker call returns no result object.
C25_LoopSurvivesExceptions ==
    mode \in {"auto", "multi"} => pc # "crashed"

(* ============ check_signal_with_positions as a function =============== *)
\* The position lists get_positions can hand to an evaluation: up to
\* MaxPos positions of the symbol, each long or short.
PositionList(f) ==
    [i \in DOMAIN f |-> [ticket |-> i, symbol |-> SYMBOL, type |-> f[i],
                         volume |-> DEFAULT_VOLUME, price_open |-> 1]]

PositionLists ==
    UNION {{PositionList(f) : f \in [1..n -> Sides]} : n \in 0..MaxPos}

NoResult == [signal |-> None, close_orders |-> <<>>]

InitSignal ==
    /\ mode = "auto"
    /\ strategy \in StrategyNames
    /\ InitRest
    /\ fn \in {[kind |-> "signal", state |-> "in", cur |-> c, in |-> i,
                result |-> NoResult, branch |-> "none"] :
                  c \in PositionLists, i \in SignalInputs(strategy)}

\* One evaluation: check_signal_with_positions(df, current_positions, ...)
\* followed by the scheduler's if/elif on its result.
EvalSignal ==
    /\ fn.kind = "signal" /\ fn.state = "in"
    /\ LET r == check_signal_with_positions(fn.in.raised, strategy,
                    fn.in.enough, DL(fn.in.dk, fn.in.ll), fn.in.sig_in,
                    fn.cur)
       IN fn' = [fn EXCEPT !.state = "out", !.result = r,
                           !.branch = scheduler_branch(r, fn.cur)]
    /\ UNCHANGED <<mode, strategy, pc, sym_idx, positions, nextTicket,
                   open_positions, trades, current_positions, close_orders,
                   order, issued_close, last>>

NextSignal == EvalSignal

SpecSignal == InitSignal /\ [][NextSignal]_vars

OrdersFor(orders, ticket) == {j \in 1..Len(orders) : orders[j].ticket = ticket}

\* C10 -- DKLL exit rule: with the DKLL strategy active and positions
\* open, the evaluation returns a close order for an open long position
\* exactly when the latest DL <= 0, for an open short position exactly when
\* the latest DL >= 0, one order per such position and none for any other.
C10_DKLLExitRule ==
    (fn.kind = "signal" /\ fn.state = "out" /\ strategy = DKLL_NAME
        /\ ~fn.in.raised /\ Len(fn.cur) > 0) =>
       LET dl == DL(fn.in.dk, fn.in.ll)
           orders == fn.result.close_orders
       IN /\ \A i \in 1..Len(fn.cur) :
               (OrdersFor(orders, fn.cur[i].ticket) # {}) <=>
                  \/ (fn.cur[i].type = "BUY" /\ dl <= 0)
                  \/ (fn.cur[i].type = "SELL" /\ dl >= 0)
          /\ \A i \in 1..Len(fn.cur) :
               Cardinality(OrdersFor(orders, fn.cur[i].ticket)) <= 1
          /\ \A j \in 1..Len(orders) :
               \E i \in 1..Len(fn.cur) :
                  /\ orders[j].ticket = fn.cur[i].ticket
                  /\ orders[j].symbol = fn.cur[i].symbol

\* DL = 0 with a long and a short position open: both are closed.
C10_Witness ==
    /\ fn.kind = "signal" /\ fn.state = "out" /\ strategy = DKLL_NAME
    /\ ~fn.in.raised
    /\ DL(fn.in.dk, fn.in.ll) = 0
    /\ Len(fn.cur) = 2
    /\ fn.cur[1].type = "BUY" /\ fn.cur[2].type = "SELL"
    /\ Len(fn.result.close_orders) = 2

\* The strategy's own signal of the evaluation in fn.
RawSignal ==
    generate_signal(strategy, fn.in.enough, DL(fn.in.dk, fn.in.ll),
                    fn.in.sig_in)

\* C11 -- exit rule of the moving-average and RSI strategies: with
\* positions open, a close order is returned for a position exactly when
\* the current signal reverses it (long and SELL, or short and BUY); a None
\* signal or a same-direction signal produces no close order.
C11_ReverseExitRule ==
    (fn.kind = "signal" /\ fn.state = "out" /\ strategy # DKLL_NAME
        /\ ~fn.in.raised /\ Len(fn.cur) > 0) =>
       LET orders == fn.result.close_orders
       IN /\ \A i \in 1..Len(fn.cur) :
               (OrdersFor(orders, fn.cur[i].ticket) # {}) <=>
                  \/ (fn.cur[i].type = "BUY" /\ RawSignal = "SELL")
                  \/ (fn.cur[i].type = "SELL" /\ RawSignal = "BUY")
          /\ \A i \in 1..Len(fn.cur) :
               Cardinality(OrdersFor(orders, fn.cur[i].ticket)) <= 1
          /\ \A j \in 1..Len(orders) :
               \E i \in 1..Len(fn.cur) : orders[j].ticket = fn.cur[i].ticket
          /\ RawSignal = None => orders = <<>>

\* A long and a short position under a BUY signal: only the short one is
\* closed.
C11_Witness ==
    /\ fn.kind = "signal" /\ fn.state = "out" /\ strategy = RSI_NAME
    /\ ~fn.in.raised
    /\ RawSignal = "BUY"
    /\ Len(fn.cur) = 2
    /\ fn.cur[1].type = "BUY" /\ fn.cur[2].type = "SELL"
    /\ Len(fn.result.close_orders) = 1
    /\ fn.result.close_orders[1].ticket = fn.cur[2].ticket

(* ================ check_position_limits as a function ================= *)
\* Symbol configurations: the three configured symbols, a symbol that is
\* not configured, and a configured symbol switched off.
RiskConfigs ==
    {ConfigOf(s) : s \in {"BTCUSD", "ETHUSD", "XAUUSD", "EURUSD"}}
    \cup {[ConfigOf("BTCUSD") EXCEPT !.enabled = FALSE]}

\* Positions the broker holds for the symbol: up to MaxPos, of these
\* volumes (hundredths of a lot).
HeldLists ==
    UNION {[1..n -> [volume : {1, 5, 10}]] : n \in 0..MaxPos}

RiskAccounts == [ok : BOOLEAN, balance : {0, 100}, equity : {80, 100, 120},
                 margin : {0, 10}, margin_free : {0, 4, 10}]

InitRisk ==
    /\ mode = "multi"
    /\ strategy = MA_NAME
    /\ InitRest
    /\ fn \in [kind : {"risk"}, state : {"in"}, cfg : RiskConfigs,
               qok : BOOLEAN, held : HeldLists, acc : RiskAccounts,
               result : {"none"}]

\* The list check_position_limits works on: positions_get(symbol=symbol),
\* with None replaced by [].
positions_seen(qok, held) == IF qok THEN held ELSE <<>>

EvalRisk ==
    /\ fn.kind = "risk" /\ fn.state = "in"
    /\ fn' = [fn EXCEPT !.state = "out",
                 !.result = check_position_limits(fn.cfg, MONEY_MANAGEMENT,
                                positions_seen(fn.qok, fn.held), fn.acc)]
    /\ UNCHANGED <<mode, strategy, pc, sym_idx, positions, nextTicket,
                   open_positions, trades, current_positions, close_orders,
                   order, issued_close, last>>

NextRisk == EvalRisk

SpecRisk == InitRisk /\ [][NextRisk]_vars

RiskDone == fn.kind = "risk" /\ fn.state = "out"
RiskSeen == positions_seen(fn.qok, fn.held)

\* The conditions (a)-(c) of the gate, on the list the broker returned.
CondDisabled == ~fn.cfg.known \/ ~fn.cfg.enabled
CondCount == Len(RiskSeen) >= fn.cfg.max_positions
CondVolume == SumVolume(RiskSeen) >= fn.cfg.max_volume
\* (d) and (e) on the account's figures, as the specification words them.
CondMargin ==
    fn.acc.margin_free * 100 <
       fn.acc.margin * MONEY_MANAGEMENT.min_free_margin_ratio
CondRisk ==
    /\ fn.acc.balance # 0
    /\ Abs(fn.acc.equity - fn.acc.balance) * 100 >
          Abs(fn.acc.balance) * MONEY_MANAGEMENT.max_total_risk

\* C7 -- risk gate: check_position_limits returns False whenever the count
\* of open positions of the symbol equals or exceeds max_positions,
\* whatever the volume, margin and equity values are.
C7_CountGate ==
    (RiskDone /\ fn.cfg.known /\ CondCount) => fn.result = "False"

\* The count is at its maximum and every other condition is favourable:
\* small volume, no margin in use, equity equal to the balance.
C7_Witness ==
    /\ RiskDone
    /\ fn.cfg.known /\ fn.cfg.enabled
    /\ Len(RiskSeen) = fn.cfg.max_positions
    /\ ~CondVolume
    /\ fn.acc.ok /\ ~CondMargin /\ ~CondRisk
    /\ fn.result = "False"

\* C8 as stated -- check_position_limits returns False whenever at least
\* one of (a) disabled or unknown symbol, (b) count >= max_positions,
\* (c) volume >= max_volume, (d) free margin < used margin x
\* min_free_margin_ratio, (e) |equity - balance| / balance > max_total_risk
\* holds, and True only when none does.  (d) and (e) are read on an account
\* whose figures are available.
C8_AsStated ==
    RiskDone =>
       LET any == \/ CondDisabled \/ CondCount \/ CondVolume
                  \/ (fn.acc.ok /\ CondMargin)
                  \/ (fn.acc.ok /\ CondRisk)
       IN /\ any => fn.result = "False"
          /\ fn.result = "True" => ~any

\* C8 -- check_position_limits returns False whenever at least one of
\* (a) disabled or unknown symbol, (b) count >= max_positions, (c) volume
\* >= max_volume, (d) account figures available and free margin < used
\* margin x min_free_margin_ratio, (e) account figures available, used
\* margin > 0 and |equity - balance| / |balance| > max_total_risk holds;
\* it returns True only when none of them holds; and it raises (division
\* by a zero balance) exactly when none of (a)-(d) holds, the account
\* figures are available, used margin > 0 and the balance is zero.
C8_GateConditions ==
    RiskDone =>
       LET abcd == \/ CondDisabled \/ CondCount \/ CondVolume
                   \/ (fn.acc.ok /\ CondMargin)
           e == fn.acc.ok /\ fn.acc.margin > 0 /\ CondRisk
           zero == fn.acc.ok /\ fn.acc.margin > 0 /\ fn.acc.balance = 0
       IN /\ (abcd \/ e) => fn.result = "False"
          /\ fn.result = "True" => ~(abcd \/ e)
          /\ fn.result = "raise" <=> (~abcd /\ zero)

\* Only (e) holds: margin is in use, free margin suffices, and the equity
\* is off the balance by more than max_total_risk.
C8_Witness ==
    /\ RiskDone
    /\ ~CondDisabled /\ ~CondCount /\ ~CondVolume
    /\ fn.acc.ok /\ ~CondMargin
    /\ fn.acc.margin > 0 /\ CondRisk
    /\ fn.acc.equity < fn.acc.balance
    /\ fn.result = "False"

(* ============== DKLLStrategy.generate_signal as a function ============ *)
\* DKLLStrategy.__init__ defaults, and the upper end of parameter_ranges.
DKLLParamSets ==
    { [n_str |-> 19, n_A1 |-> 11, n_A2 |-> 19, n_LL |-> 19],
      [n_str |-> 30, n_A1 |-> 20, n_A2 |-> 30, n_LL |-> 30] }

\* Frame lengths on both sides of the two thresholds 19 + 5 and 30 + 5.
BarCounts == {23, 24, 25, 34, 35, 36}

InitDKLL ==
    /\ mode = "auto"
    /\ strategy = DKLL_NAME
    /\ fn \in [kind : {"dkll"}, state : {"in"}, params : DKLLParamSets,
               n_bars : BarCounts, dk : DKValues, ll : LLValues,
               result : {None}]
    /\ InitRest

\* One call of DKLLStrategy.generate_signal on a frame whose last bar has
\* DL = DK + LL.
EvalDKLL ==
    /\ fn.kind = "dkll" /\ fn.state = "in"
    /\ fn' = [fn EXCEPT !.state = "out",
                 !.result = DKLL_generate_signal(
                                enough_bars(fn.n_bars, fn.params),
                                DL(fn.dk, fn.ll))]
    /\ UNCHANGED <<mode, strategy, pc, sym_idx, positions, nextTicket,
                   open_positions, trades, current_positions, close_orders,
                   order, issued_close, last>>

NextDKLL == EvalDKLL

SpecDKLL == InitDKLL /\ [][NextDKLL]_vars

\* The frame is shorter than max(parameter values) + 5.
ShortFrame == \E k \in DOMAIN fn.params : fn.n_bars < fn.params[k] + 5

\* C13 -- DKLLStrategy.generate_signal returns BUY exactly when the latest
\* DL is +2, SELL exactly when it is -2 and None for every other DL; it
\* returns None whenever the frame has fewer than max(parameter values) + 5
\* bars.
C13_DKLLEntryRule ==
    (fn.kind = "dkll" /\ fn.state = "out") =>
       /\ ShortFrame => fn.result = None
       /\ ~ShortFrame =>
            /\ (fn.result = "BUY") <=> (fn.dk + fn.ll = 2)
            /\ (fn.result = "SELL") <=> (fn.dk + fn.ll = -2)
            /\ (fn.dk + fn.ll \notin {2, -2}) => fn.result = None

\* DL = +2 on a frame of exactly max(parameter values) + 5 bars gives BUY.
C13_Witness ==
    /\ fn.kind = "dkll" /\ fn.state = "out"
    /\ fn.dk + fn.ll = 2
    /\ fn.n_bars = 24 /\ fn.params.n_str = 19
    /\ fn.result = "BUY"

(* ======================= place_order as a function ==================== *)
InitOrder ==
    /\ mode = "auto"
    /\ strategy \in StrategyNames
    /\ fn \in [kind : {"order"}, state : {"in"}, side : Sides,
               in : OrderInputs,
               result : {po_result("none", <<>>, FALSE, 0)}]
    /\ InitRest

\* One call of place_order with the default volume while `strategy` is the
\* current strategy.
EvalOrder ==
    /\ fn.kind = "order" /\ fn.state = "in"
    /\ fn' = [fn EXCEPT !.state = "out",
                 !.result = place_order(SYMBOL, fn.side, DEFAULT_VOLUME,
                                        strategy, fn.in)]
    /\ UNCHANGED <<mode, strategy, pc, sym_idx, positions, nextTicket,
                   open_positions, trades, current_positions, close_orders,
                   order, issued_close, last>>

NextOrder == EvalOrder

SpecOrder == InitOrder /\ [][NextOrder]_vars

OrderDone == fn.kind = "order" /\ fn.state = "out"

\* C14 -- no request sent while DKLL is the active strategy carries a stop
\* loss or a take profit; the first request sent for any other strategy
\* carries both.
C14_StopsByStrategy ==
    OrderDone =>
       LET requests == fn.result.requests
       IN /\ strategy = DKLL_NAME =>
                \A i \in 1..Len(requests) :
                    ~requests[i].sl /\ ~requests[i].tp
          /\ (strategy # DKLL_NAME /\ Len(requests) >= 1) =>
                requests[1].sl /\ requests[1].tp

\* An RSI order went out with both stops on a symbol with a stops level.
C14_Witness ==
    /\ OrderDone
    /\ strategy = RSI_NAME
    /\ fn.in.stops_level > 0
    /\ Len(fn.result.requests) = 1
    /\ fn.result.requests[1].sl /\ fn.result.requests[1].tp
    /\ fn.result.ret = "True"

\* C15 -- retry protocol of place_order: after retcode 10016 on a request
\* that carried stops exactly one more request is sent, without stop loss
\* and take profit; after every other failure retcode no further request is
\* sent and the call returns False; no call sends more than two requests.
C15_RetryProtocol ==
    OrderDone =>
       LET requests == fn.result.requests
           carried == Len(requests) >= 1
                        /\ (requests[1].sl \/ requests[1].tp)
           failed == Len(requests) >= 1
                       /\ fn.in.rc1 \notin {TRADE_RETCODE_DONE, RETCODE_NONE}
       IN /\ Len(requests) <= 2
          /\ (failed /\ fn.in.rc1 = RETCODE_INVALID_STOPS /\ carried) =>
                /\ Len(requests) = 2
                /\ ~requests[2].sl /\ ~requests[2].tp
          /\ (failed /\ ~(fn.in.rc1 = RETCODE_INVALID_STOPS /\ carried)) =>
                /\ Len(requests) = 1
                /\ fn.result.ret = "False"
          /\ ~failed => Len(requests) <= 1

\* A moving-average order was refused for its stops, resent without them
\* and filled.
C15_Witness ==
    /\ OrderDone
    /\ strategy = MA_NAME
    /\ fn.in.rc1 = RETCODE_INVALID_STOPS
    /\ fn.in.rc2 = TRADE_RETCODE_DONE
    /\ Len(fn.result.requests) = 2
    /\ fn.result.requests[1].sl
    /\ ~fn.result.requests[2].sl /\ ~fn.result.requests[2].tp
    /\ fn.result.ret = "True"

(* ====================== optimizer: optimizer.py ======================= *)
\* Profits are integers in units of 10^-7 of a price unit; PROFIT_EPS is the
\* 0.001 added in the normalised-profit term of the score.
PROFIT_EPS == 10000
MIN_TRADES == 10
REJECTED == -999
PROFIT_FACTOR_CAP == 3

\* Exact rationals [n, d] with d > 0 in lowest terms stand for the float
\* values; [n |-> -1, d |-> 0] is float('-inf').
RECURSIVE GCD(_, _)
GCD(a, b) == IF b = 0 THEN a ELSE GCD(b, a % b)

Rat(n, d) ==
    LET g == GCD(Abs(n), Abs(d))
        sg == IF d < 0 THEN -1 ELSE 1
    IN [n |-> sg * (n \div g), d |-> sg * (d \div g)]

NegInf == [n |-> -1, d |-> 0]

RatAdd(a, b) == Rat(a.n * b.d + b.n * a.d, a.d * b.d)
RatMul(a, b) == Rat(a.n * b.n, a.d * b.d)

\* a > b on floats.
ScoreGreater(a, b) ==
    IF a.d = 0 THEN FALSE
    ELSE IF b.d = 0 THEN TRUE
    ELSE a.n * b.d > b.n * a.d

RECURSIVE SumProfit(_)
SumProfit(ps) == IF ps = <<>> THEN 0 ELSE Head(ps) + SumProfit(Tail(ps))

\* The score with the sign of the total profit as its profit term.
score_of_sign(total_trades, n_winning, gross_profit, gross_loss, total_profit) ==
    LET capped == IF gross_loss > 0
                  THEN IF gross_profit >= PROFIT_FACTOR_CAP * gross_loss
                       THEN Rat(PROFIT_FACTOR_CAP, 1)
                       ELSE Rat(gross_profit, gross_loss)
                  ELSE IF gross_profit > 0 THEN Rat(PROFIT_FACTOR_CAP, 1)
                  ELSE Rat(0, 1)
        sign == IF total_profit > 0 THEN 1
                ELSE IF total_profit < 0 THEN -1 ELSE 0
    IN IF total_trades < MIN_TRADES THEN Rat(REJECTED, 1)
       ELSE RatAdd(RatAdd(RatMul(Rat(n_winning, total_trades), Rat(3, 10)),
                          RatMul(capped, Rat(4, 10))),
                   Rat(3 * sign, 10))

\* The score line of _backtest_parameters:
\*   (win_rate / 100) * 0.3 + min(profit_factor, 3) * 0.4
\*     + (total_profit / abs(total_profit + 0.001)) * 0.3
\* and -999 below ten trades.  A zero divisor under a negative total gives
\* -inf.
score_of(total_trades, n_winning, gross_profit, gross_loss, total_profit) ==
    LET capped == IF gross_loss > 0
                  THEN IF gross_profit >= PROFIT_FACTOR_CAP * gross_loss
                       THEN Rat(PROFIT_FACTOR_CAP, 1)
                       ELSE Rat(gross_profit, gross_loss)
                  ELSE IF gross_profit > 0 THEN Rat(PROFIT_FACTOR_CAP, 1)
                  ELSE Rat(0, 1)
        divisor == Abs(total_profit + PROFIT_EPS)
    IN IF total_trades < MIN_TRADES THEN Rat(REJECTED, 1)
       ELSE IF divisor = 0 THEN NegInf
       ELSE RatAdd(RatAdd(RatMul(Rat(n_winning, total_trades), Rat(3, 10)),
                          RatMul(capped, Rat(4, 10))),
                   RatMul(Rat(total_profit, divisor), Rat(3, 10)))

\* The statistics part of _backtest_parameters over the closed trades'
\* profits; raised = the indicator pass or the replay threw.
backtest_statistics(raised, profits) ==
    LET winning == SelectSeq(profits, LAMBDA x : x > 0)
        losing == SelectSeq(profits, LAMBDA x : x < 0)
        total_trades == Len(profits)
        total_profit == SumProfit(profits)
        gross_profit == SumProfit(winning)
        gross_loss == Abs(SumProfit(losing))
    IN IF raised \/ profits = <<>>
       THEN [score |-> Rat(REJECTED, 1), total_trades |-> 0,
             n_winning |-> 0, gross_profit |-> 0, gross_loss |-> 0,
             total_profit |-> 0]
       ELSE [score |-> score_of(total_trades, Len(winning), gross_profit,
                                gross_loss, total_profit),
             total_trades |-> total_trades, n_winning |-> Len(winning),
             gross_profit |-> gross_profit, gross_loss |-> gross_loss,
             total_profit |-> total_profit]

(* --------------------- optimize_strategy and caller ------------------- *)
MaxCombos == 2

Rep(v, n) == [i \in 1..n |-> v]

\* Closed-trade profit lists a replay can end with: none, too few, and ten
\* or eleven trades with totals above, at and below zero, at -0.001 and
\* next to it.
BacktestTrades ==
    { <<>>,
      Rep(PROFIT_EPS, 1),
      Rep(PROFIT_EPS, MIN_TRADES - 1),
      Rep(PROFIT_EPS, MIN_TRADES),
      Rep(PROFIT_EPS, 5) \o Rep(-PROFIT_EPS, 5),
      Rep(PROFIT_EPS, 6) \o Rep(-PROFIT_EPS, 5),
      Rep(PROFIT_EPS, 4) \o Rep(-PROFIT_EPS, 6),
      Rep(0, MIN_TRADES - 1) \o <<-5000>>,
      Rep(0, MIN_TRADES - 1) \o <<-PROFIT_EPS>>,
      Rep(0, MIN_TRADES - 1) \o <<-(PROFIT_EPS + 1)>> }

\* Strategy constructors' default_params.
DefaultParams(strategy_name) ==
    IF strategy_name = MA_NAME THEN [ma_short |-> 10, ma_long |-> 20]
    ELSE IF strategy_name = DKLL_NAME
    THEN [n_str |-> 19, n_A1 |-> 11, n_A2 |-> 19, n_LL |-> 19]
    ELSE [rsi_period |-> 14, oversold |-> 30, overbought |-> 70]

\* Parameter maps a strategy can hold or a candidate can be: the defaults
\* and one other point of parameter_ranges.
ParamSets(strategy_name) ==
    {DefaultParams(strategy_name)} \cup
    ( IF strategy_name = MA_NAME THEN {[ma_short |-> 5, ma_long |-> 50]}
      ELSE IF strategy_name = DKLL_NAME
      THEN {[n_str |-> 30, n_A1 |-> 20, n_A2 |-> 30, n_LL |-> 30]}
      ELSE {[rsi_period |-> 10, oversold |-> 20, overbought |-> 80]} )

\* dict.update
Update(base, params) ==
    [k \in (DOMAIN base) \cup (DOMAIN params) |->
        IF k \in DOMAIN params THEN params[k] ELSE base[k]]

\* BaseStrategy.set_params on the object ref of the heap objs.
set_params(objs, ref, params) ==
    [objs EXCEPT ![ref] = Update(objs[ref], params)]

\* Variant of _create_strategy_instance that hands out the registry's own
\* strategy object after setting the candidate's parameters on it.
create_strategy_instance_reuses_live(objs, strategy_name, params) ==
    [objs |-> set_params(objs, strategy_name, params), ref |-> strategy_name]

\* _create_strategy_instance: a new strategy object whose parameter map is a
\* new default_params dict updated with the candidate.
create_strategy_instance(objs, strategy_name, params) ==
    [objs |-> [objs EXCEPT !["temp"] =
                   Update(DefaultParams(strategy_name), params)],
     ref |-> "temp"]

\* best_params = None
NoParams == EmptyFn

NoStats == [score |-> NegInf, total_trades |-> 0, n_winning |-> 0,
            gross_profit |-> 0, gross_loss |-> 0, total_profit |-> 0]

\* The heap: the three strategies of the registry and the optimizer's
\* temporary instance.
Heaps ==
    { [r \in StrategyNames \cup {"temp"} |->
          IF r = MA_NAME THEN a ELSE IF r = DKLL_NAME THEN b
          ELSE IF r = RSI_NAME THEN c ELSE EmptyFn] :
      a \in ParamSets(MA_NAME), b \in {DefaultParams(DKLL_NAME)},
      c \in {DefaultParams(RSI_NAME)} }
    \cup
    { [r \in StrategyNames \cup {"temp"} |->
          IF r = MA_NAME THEN a ELSE IF r = DKLL_NAME THEN b
          ELSE IF r = RSI_NAME THEN c ELSE EmptyFn] :
      a \in {DefaultParams(MA_NAME)}, b \in ParamSets(DKLL_NAME),
      c \in ParamSets(RSI_NAME) }

\* The state before run_automated_trading's optimization block calls
\* optimize_strategy for the current strategy.
InitOpt ==
    /\ mode = "auto"
    /\ strategy \in StrategyNames
    /\ \E objs \in Heaps :
         fn = [kind |-> "opt", phase |-> "call", objs |-> objs,
               before |-> objs, combos |-> <<>>, i |-> 1,
               best_params |-> NoParams, best_score |-> NegInf,
               best_stats |-> NoStats, results |-> <<>>, ret |-> "none"]
    /\ InitRest

OptFrame ==
    UNCHANGED <<mode, strategy, pc, sym_idx, positions, nextTicket,
                open_positions, trades, current_positions, close_orders,
                order, issued_close, last>>

\* optimize_strategy up to the loop: the history request gives no rates
\* (return None), an empty array (the frame has no 'time' column and the
\* conversion raises), or rates; then test_combinations candidates are
\* generated.
OptStart ==
    /\ fn.kind = "opt" /\ fn.phase = "call"
    /\ \E rates \in {"None", "empty", "ok"} :
         IF rates = "None"
         THEN fn' = [fn EXCEPT !.phase = "returned", !.ret = "None"]
         ELSE IF rates = "empty"
         THEN fn' = [fn EXCEPT !.phase = "returned", !.ret = "raise"]
         ELSE \E n \in 1..MaxCombos :
                \E combos \in [1..n -> ParamSets(strategy)] :
                   fn' = [fn EXCEPT !.phase = "loop", !.combos = combos]
    /\ OptFrame

\* One pass of the candidate loop: a temporary strategy is created, the
\* backtest runs on it, the result is appended and the best is updated on
\* score > best_score.
OptEvaluate ==
    /\ fn.kind = "opt" /\ fn.phase = "loop" /\ fn.i <= Len(fn.combos)
    /\ \E raised \in BOOLEAN : \E profits \in BacktestTrades :
         LET params == fn.combos[fn.i]
             inst == create_strategy_instance(fn.objs, strategy, params)
             stats == backtest_statistics(raised, profits)
             better == ScoreGreater(stats.score, fn.best_score)
         IN /\ raised => profits = <<>>
            /\ fn' = [fn EXCEPT
                 !.objs = inst.objs,
                 !.results = Append(@, [params |-> params,
                                        score |-> stats.score,
                                        stats |-> stats]),
                 !.best_score = IF better THEN stats.score ELSE @,
                 !.best_params = IF better THEN params ELSE @,
                 !.best_stats = IF better THEN stats ELSE @,
                 !.i = @ + 1]
    /\ OptFrame

\* The loop is over: return best_params.
OptReturn ==
    /\ fn.kind = "opt" /\ fn.phase = "loop" /\ fn.i > Len(fn.combos)
    /\ fn' = [fn EXCEPT !.phase = "returned",
                 !.ret = IF fn.best_params = NoParams THEN "None" ELSE "params"]
    /\ OptFrame

\* run_automated_trading after the call: set_params with the returned
\* combination when there is one; an exception is logged.
OptApply ==
    /\ fn.kind = "opt" /\ fn.phase = "returned"
    /\ fn' = [fn EXCEPT !.phase = "done",
                 !.objs = IF fn.ret = "params"
                          THEN set_params(@, strategy, fn.best_params)
                          ELSE @]
    /\ OptFrame

NextOpt ==
    \/ OptStart
    \/ OptEvaluate
    \/ OptReturn
    \/ OptApply

SpecOpt == InitOpt /\ [][NextOpt]_vars

OptReturned == fn.kind = "opt" /\ fn.phase \in {"returned", "done"}

\* a <= b in the extended reals.
ScoreLeq(a, b) ==
    \/ a.d = 0
    \/ (b.d # 0 /\ a.n * b.d <= b.n * a.d)

\* C16 -- optimizer rejection: every combination whose backtest has fewer
\* than 10 closed trades scores exactly -999, and such a combination is the
\* result optimize_strategy returns only if every evaluated candidate also
\* scores -999.
C16_Rejection ==
    OptReturned =>
       /\ \A j \in 1..Len(fn.results) :
            fn.results[j].stats.total_trades < MIN_TRADES =>
               fn.results[j].score = Rat(REJECTED, 1)
       /\ (fn.ret = "params" /\ fn.best_stats.total_trades < MIN_TRADES) =>
             \A j \in 1..Len(fn.results) :
                fn.results[j].score = Rat(REJECTED, 1)

\* C17 -- scoring law: for every backtest with at least 10 closed trades
\* the score equals 0.3 x (win rate / 100) + 0.4 x min(profit factor, 3)
\* + 0.3 x sign(total profit), whatever the size of the total profit.
C17_ScoringLaw ==
    fn.kind = "opt" =>
       \A j \in 1..Len(fn.results) :
          LET st == fn.results[j].stats
          IN st.total_trades >= MIN_TRADES =>
                fn.results[j].score =
                   score_of_sign(st.total_trades, st.n_winning,
                                 st.gross_profit, st.gross_loss,
                                 st.total_profit)

\* C18 -- optimize_strategy returns the combination with the maximum score
\* among the evaluated candidates, and of several candidates with that
\* score the one evaluated first.
C18_ReturnsFirstMaximum ==
    (OptReturned /\ Len(fn.results) > 0) =>
       \E i \in 1..Len(fn.results) :
          /\ \A j \in 1..Len(fn.results) :
                ScoreLeq(fn.results[j].score, fn.results[i].score)
          /\ \A j \in 1..(i - 1) :
                ~ScoreLeq(fn.results[i].score, fn.results[j].score)
          /\ fn.ret = "params"
          /\ fn.best_params = fn.results[i].params

\* The parameter maps of the registry's strategies in a heap, and in an
\* optimizer state.
LiveOf(objs) == [name \in StrategyNames |-> objs[name]]
LiveParams(f) == LiveOf(f.objs)

\* C19 -- the optimizer never mutates a live strategy: no step of
\* optimize_strategy changes the parameters of a strategy of the registry
\* and each candidate runs on an instance with its own parameter map; live
\* parameters change only by the caller's set_params with the returned
\* combination; after a cycle in which optimize_strategy returned None or
\* raised they are what they were before.
C19_LiveParamsUntouched ==
    [][fn.kind = "opt" =>
         /\ fn.phase \in {"call", "loop"} =>
               /\ LiveParams(fn') = LiveParams(fn)
               /\ Len(fn'.results) > Len(fn.results) =>
                     fn'.objs["temp"] = fn.combos[fn.i]
         /\ LiveParams(fn') # LiveParams(fn) =>
               /\ fn.phase = "returned" /\ fn.ret = "params"
               /\ LiveParams(fn') =
                     [LiveParams(fn) EXCEPT ![strategy] =
                         Update(@, fn.best_params)]
         /\ (fn'.phase = "done" /\ fn'.ret \in {"None", "raise"}) =>
               LiveParams(fn') = LiveOf(fn'.before)]_vars

\* A cycle evaluated every candidate, returned one that differs from the
\* live parameters, and the caller applied it.
C19_Witness ==
    /\ fn.kind = "opt" /\ fn.phase = "done" /\ fn.ret = "params"
    /\ Len(fn.results) = MaxCombos
    /\ fn.objs[strategy] = fn.best_params
    /\ fn.before[strategy] # fn.best_params
    /\ \A name \in StrategyNames \ {strategy} :
          fn.objs[name] = fn.before[name]

(* ----------------- _generate_parameter_combinations ------------------- *)
\* ParameterOptimizer.parameter_ranges, each strategy's parameters in the
\* order of the dict.
parameter_ranges(strategy_name) ==
    IF strategy_name = MA_NAME
    THEN << [name |-> "ma_short", min_val |-> 5, max_val |-> 20],
            [name |-> "ma_long", min_val |-> 10, max_val |-> 50] >>
    ELSE IF strategy_name = DKLL_NAME
    THEN << [name |-> "n_str", min_val |-> 10, max_val |-> 30],
            [name |-> "n_A1", min_val |-> 5, max_val |-> 20],
            [name |-> "n_A2", min_val |-> 10, max_val |-> 30],
            [name |-> "n_LL", min_val |-> 10, max_val |-> 30] >>
    ELSE << [name |-> "rsi_period", min_val |-> 10, max_val |-> 25],
            [name |-> "oversold", min_val |-> 20, max_val |-> 35],
            [name |-> "overbought", min_val |-> 65, max_val |-> 80] >>

\* params.get(key, default)
Get(params, key, default) ==
    IF key \in DOMAIN params THEN params[key] ELSE default

\* Variant of the draw range that ignores the parameters drawn so far.
randint_range_no_floor(r, params) ==
    [lo |-> r.min_val, hi |-> r.max_val]

\* The arguments of random.randint for parameter r, given the parameters
\* of the combination drawn so far.
randint_range(r, params) ==
    IF r.name = "overbought"
    THEN [lo |-> Max2(r.min_val, Get(params, "oversold", 30) + 10),
          hi |-> r.max_val]
    ELSE IF r.name = "ma_long"
    THEN [lo |-> Max2(r.min_val, Get(params, "ma_short", 10) + 1),
          hi |-> r.max_val]
    ELSE [lo |-> r.min_val, hi |-> r.max_val]

\* Values random.randint(lo, hi) is followed through: both ends of the
\* range and its middle.
RandInts(lo, hi) == {v \in {lo, (lo + hi) \div 2, hi} : lo <= v /\ v <= hi}

InitGen ==
    /\ mode = "auto"
    /\ strategy \in StrategyNames
    /\ \E count \in 0..MaxCombos :
         fn = [kind |-> "gen", state |-> "loop", count |-> count,
               combinations |-> <<>>, params |-> EmptyFn, k |-> 1]
    /\ InitRest

\* One pass of the inner loop: a value is drawn for the next parameter;
\* after the last parameter the combination is appended.
GenDraw ==
    /\ fn.kind = "gen" /\ fn.state = "loop"
    /\ Len(fn.combinations) < fn.count
    /\ LET r == parameter_ranges(strategy)[fn.k]
           rng == randint_range(r, fn.params)
       IN \E v \in RandInts(rng.lo, rng.hi) :
            LET params == [x \in (DOMAIN fn.params) \cup {r.name} |->
                              IF x = r.name THEN v ELSE fn.params[x]]
            IN IF fn.k = Len(parameter_ranges(strategy))
               THEN fn' = [fn EXCEPT !.combinations = Append(@, params),
                                     !.params = EmptyFn, !.k = 1]
               ELSE fn' = [fn EXCEPT !.params = params, !.k = @ + 1]
    /\ OptFrame

\* range(count) is exhausted: return combinations.
GenReturn ==
    /\ fn.kind = "gen" /\ fn.state = "loop"
    /\ ~(Len(fn.combinations) < fn.count)
    /\ fn' = [fn EXCEPT !.state = "out"]
    /\ OptFrame

NextGen ==
    \/ GenDraw
    \/ GenReturn

SpecGen == InitGen /\ [][NextGen]_vars

\* C20 -- every combination _generate_parameter_combinations produces has
\* each value inside its declared [min, max] range, ma_long > ma_short for
\* the moving-average strategy and overbought >= oversold + 10 for the RSI
\* strategy; the number of combinations returned is the requested count.
C20_CombinationsInRange ==
    fn.kind = "gen" =>
       /\ \A j \in 1..Len(fn.combinations) :
            LET c == fn.combinations[j]
                ranges == parameter_ranges(strategy)
            IN /\ DOMAIN c = {ranges[i].name : i \in 1..Len(ranges)}
               /\ \A i \in 1..Len(ranges) :
                     /\ ranges[i].min_val <= c[ranges[i].name]
                     /\ c[ranges[i].name] <= ranges[i].max_val
               /\ strategy = MA_NAME => c.ma_long > c.ma_short
               /\ strategy = RSI_NAME => c.overbought >= c.oversold + 10
       /\ fn.state = "out" => Len(fn.combinations) = fn.count

\* The requested number of moving-average combinations was returned, one of
\* them with the largest short period and the long period just above it.
C20_Witness ==
    /\ fn.kind = "gen" /\ fn.state = "out" /\ strategy = MA_NAME
    /\ fn.count = MaxCombos
    /\ Len(fn.combinations) = MaxCombos
    /\ \E j \in 1..Len(fn.combinations) :
          /\ fn.combinations[j].ma_short = 20
          /\ fn.combinations[j].ma_long = 21

(* ------------- _backtest_parameters: the replay of the bars ----------- *)
MaxBars == 5

BarCloses == {1, 3}

NoPosition == [side |-> None, entry_price |-> 0, entry_time |-> 0]

\* Variant of the replay step that keeps the old entry time when it
\* reverses.
backtest_step_keeps_entry_time(st, signal, close, time) ==
    IF signal # None /\ st.position.side = None
    THEN [st EXCEPT !.position = [side |-> signal, entry_price |-> close,
                                  entry_time |-> time]]
    ELSE IF signal # None /\ st.position.side # None
            /\ signal # st.position.side
    THEN [st EXCEPT
            !.trades = Append(@,
                [entry_time |-> st.position.entry_time, exit_time |-> time,
                 type |-> st.position.side,
                 entry_price |-> st.position.entry_price,
                 exit_price |-> close,
                 profit |-> IF st.position.side = "BUY"
                            THEN close - st.position.entry_price
                            ELSE st.position.entry_price - close]),
            !.position = [side |-> signal, entry_price |-> close,
                          entry_time |-> st.position.entry_time]]
    ELSE st

\* Variant of the replay step that closes and reopens on every signal
\* while a position is open.
backtest_step_closes_on_any_signal(st, signal, close, time) ==
    IF signal # None /\ st.position.side = None
    THEN [st EXCEPT !.position = [side |-> signal, entry_price |-> close,
                                  entry_time |-> time]]
    ELSE IF signal # None /\ st.position.side # None
    THEN [st EXCEPT
            !.trades = Append(@,
                [entry_time |-> st.position.entry_time, exit_time |-> time,
                 type |-> st.position.side,
                 entry_price |-> st.position.entry_price,
                 exit_price |-> close,
                 profit |-> IF st.position.side = "BUY"
                            THEN close - st.position.entry_price
                            ELSE st.position.entry_price - close]),
            !.position = [side |-> signal, entry_price |-> close,
                          entry_time |-> time]]
    ELSE st

\* One pass of the bar loop of _backtest_parameters: signal is
\* strategy.generate_signal on the bars up to this one, close and time are
\* the bar's.
backtest_step(st, signal, close, time) ==
    IF signal # None /\ st.position.side = None
    THEN [st EXCEPT !.position = [side |-> signal, entry_price |-> close,
                                  entry_time |-> time]]
    ELSE IF signal # None /\ st.position.side # None
            /\ signal # st.position.side
    THEN [st EXCEPT
            !.trades = Append(@,
                [entry_time |-> st.position.entry_time, exit_time |-> time,
                 type |-> st.position.side,
                 entry_price |-> st.position.entry_price,
                 exit_price |-> close,
                 profit |-> IF st.position.side = "BUY"
                            THEN close - st.position.entry_price
                            ELSE st.position.entry_price - close]),
            !.position = [side |-> signal, entry_price |-> close,
                          entry_time |-> time]]
    ELSE st

\* The replay before the first pass; the frame has n_bars bars, the loop
\* runs over bars 1 .. n_bars - 1 (0-based), bar i having time i.
InitBacktest ==
    /\ mode = "auto"
    /\ strategy \in StrategyNames
    /\ \E n \in 0..MaxBars :
         fn = [kind |-> "backtest", n_bars |-> n, i |-> 1,
               position |-> NoPosition, trades |-> <<>>,
               signal |-> None, close |-> 0, reversals |-> 0]
    /\ InitRest

BacktestStep ==
    /\ fn.kind = "backtest" /\ fn.i < fn.n_bars
    /\ \E signal \in Sides \cup {None} : \E close \in BarCloses :
         LET st == backtest_step(fn, signal, close, fn.i)
         IN fn' = [st EXCEPT !.i = fn.i + 1, !.signal = signal,
                             !.close = close,
                             !.reversals =
                                IF signal # None /\ fn.position.side # None
                                   /\ signal # fn.position.side
                                THEN @ + 1 ELSE @]
    /\ OptFrame

NextBacktest == BacktestStep

SpecBacktest == InitBacktest /\ [][NextBacktest]_vars

\* C21 -- single-open invariant of the backtest: at every step at most one
\* simulated position is open, and each recorded trade's entry time is not
\* earlier than the previous trade's exit time.
C21_SingleOpen ==
    fn.kind = "backtest" =>
       /\ fn.position.side \in Sides \cup {None}
       /\ \A k \in 1..Len(fn.trades) :
            /\ fn.trades[k].entry_time <= fn.trades[k].exit_time
            /\ k > 1 =>
                 fn.trades[k].entry_time >= fn.trades[k - 1].exit_time
       /\ (fn.position.side # None /\ Len(fn.trades) > 0) =>
             fn.position.entry_time >=
                fn.trades[Len(fn.trades)].exit_time

\* Two reversals were replayed: two trades, the second entered at the bar
\* the first was closed at.
C21_Witness ==
    /\ fn.kind = "backtest"
    /\ Len(fn.trades) = 2
    /\ fn.trades[2].entry_time = fn.trades[1].exit_time
    /\ fn.position.side # None

\* C22 -- the backtest is reversal-only: flat, any BUY/SELL signal opens at
\* the bar's close; with a position, an opposite signal closes it at the
\* bar's close, recording one trade with the directional price difference
\* as profit, and opens the opposite position at the same bar; a None or
\* same-direction signal changes nothing; the trades recorded are as many
\* as the reversals, a position still open at the end not being counted.
C22_ReversalOnly ==
    [][fn.kind = "backtest" =>
         LET sig == fn'.signal
             px == fn'.close
             pos == fn.position
             opened == [side |-> sig, entry_price |-> px,
                        entry_time |-> fn.i]
         IN /\ (sig # None /\ pos.side = None) =>
                  fn'.position = opened /\ fn'.trades = fn.trades
            /\ (sig # None /\ pos.side # None /\ sig # pos.side) =>
                  /\ fn'.position = opened
                  /\ Len(fn'.trades) = Len(fn.trades) + 1
                  /\ SubSeq(fn'.trades, 1, Len(fn.trades)) = fn.trades
                  /\ LET t == fn'.trades[Len(fn'.trades)]
                     IN /\ t.type = pos.side
                        /\ t.entry_price = pos.entry_price
                        /\ t.exit_price = px
                        /\ t.exit_time = fn.i
                        /\ pos.side = "BUY" =>
                              t.profit = px - pos.entry_price
                        /\ pos.side = "SELL" =>
                              t.profit = pos.entry_price - px
            /\ (sig = None \/ sig = pos.side) =>
                  fn'.position = pos /\ fn'.trades = fn.trades
            /\ Len(fn'.trades) = fn'.reversals]_vars

\* A long entered at 1 was reversed at 3 for a profit of 2, and the short
\* opened by the reversal is still open at the last bar.
C22_Witness ==
    /\ fn.kind = "backtest" /\ fn.i = fn.n_bars
    /\ Len(fn.trades) = 1
    /\ fn.trades[1].type = "BUY" /\ fn.trades[1].profit = 2
    /\ fn.position.side = "SELL"
    /\ fn.reversals = 1

(* ------------- the price fetch of the single-symbol loops ------------- *)
MaxErrors == 6
ERROR_THRESHOLD == 5

CounterLoops == {"auto", "continuous", "timed"}

\* Variant of the fetch handling that leaves the counter alone after a
\* successful fetch.
price_fetch_step_keeps_count(loop, count, tick_ok, weekend, check_ok) ==
    IF tick_ok
    THEN [count |-> count, branch |-> "ok", slept |-> 0, next |-> "proceed"]
    ELSE IF loop = "timed"
    THEN [count |-> count + 1, branch |-> "retry", slept |-> 2,
          next |-> "continue"]
    ELSE IF count + 1 >= ERROR_THRESHOLD
    THEN IF weekend
         THEN [count |-> 0, branch |-> "weekend", slept |-> 60,
               next |-> "continue"]
         ELSE IF check_ok
         THEN [count |-> 0, branch |-> "reconnected", slept |-> 5,
               next |-> "continue"]
         ELSE [count |-> count + 1, branch |-> "backoff", slept |-> 30,
               next |-> "continue"]
    ELSE [count |-> count + 1, branch |-> "retry", slept |-> 5,
          next |-> "continue"]

\* Variant of the fetch handling that starts the protocol one failure
\* later.
price_fetch_step_late_threshold(loop, count, tick_ok, weekend, check_ok) ==
    IF tick_ok
    THEN [count |-> 0, branch |-> "ok", slept |-> 0, next |-> "proceed"]
    ELSE IF loop = "timed"
    THEN [count |-> count + 1, branch |-> "retry", slept |-> 2,
          next |-> "continue"]
    ELSE IF count + 1 > ERROR_THRESHOLD
    THEN IF weekend
         THEN [count |-> 0, branch |-> "weekend", slept |-> 60,
               next |-> "continue"]
         ELSE IF check_ok
         THEN [count |-> 0, branch |-> "reconnected", slept |-> 5,
               next |-> "continue"]
         ELSE [count |-> count + 1, branch |-> "backoff", slept |-> 30,
               next |-> "continue"]
    ELSE [count |-> count + 1, branch |-> "retry", slept |-> 5,
          next |-> "continue"]

\* The head of one loop iteration: tick = get_real_time_price(SYMBOL) and
\* the handling of connection_error_count.  tick_ok = a tick came back,
\* weekend = now.weekday() >= 5, check_ok = check_connection_status().
\* next is "continue" when the iteration ends here and "proceed" when it
\* goes on to the rest of the loop body.
price_fetch_step(loop, count, tick_ok, weekend, check_ok) ==
    IF tick_ok
    THEN [count |-> 0, branch |-> "ok", slept |-> 0, next |-> "proceed"]
    ELSE IF loop = "timed"
    THEN [count |-> count + 1, branch |-> "retry", slept |-> 2,
          next |-> "continue"]
    ELSE IF count + 1 >= ERROR_THRESHOLD
    THEN IF weekend
         THEN [count |-> 0, branch |-> "weekend", slept |-> 60,
               next |-> "continue"]
         ELSE IF check_ok
         THEN [count |-> 0, branch |-> "reconnected", slept |-> 5,
               next |-> "continue"]
         ELSE [count |-> count + 1, branch |-> "backoff", slept |-> 30,
               next |-> "continue"]
    ELSE [count |-> count + 1, branch |-> "retry", slept |-> 5,
          next |-> "continue"]

\* connection_error_count = 0 before the loop.  fails counts the failed
\* fetches since the last successful fetch or reset; was is the counter
\* at the start of the last iteration.
InitConn ==
    /\ mode = "auto"
    /\ strategy \in StrategyNames
    /\ \E loop \in CounterLoops :
         fn = [kind |-> "conn", loop |-> loop, count |-> 0, fails |-> 0,
               was |-> 0,
               tick_ok |-> TRUE, weekend |-> FALSE, check_ok |-> TRUE,
               branch |-> "init", slept |-> 0, next |-> "proceed"]
    /\ InitRest

\* One loop iteration as far as the counter is concerned.
ConnIteration ==
    /\ fn.kind = "conn"
    /\ \E tick_ok \in BOOLEAN : \E weekend \in BOOLEAN :
       \E check_ok \in BOOLEAN :
         LET r == price_fetch_step(fn.loop, fn.count, tick_ok, weekend,
                                   check_ok)
         IN /\ tick_ok \/ fn.count < MaxErrors
            /\ fn' = [fn EXCEPT
                 !.count = r.count, !.was = fn.count,
                 !.branch = r.branch,
                 !.slept = r.slept, !.next = r.next,
                 !.tick_ok = tick_ok, !.weekend = weekend,
                 !.check_ok = check_ok,
                 !.fails = IF tick_ok THEN 0
                           ELSE IF r.branch \in {"weekend", "reconnected"}
                           THEN 0 ELSE @ + 1]
    /\ OptFrame

NextConn == ConnIteration

SpecConn == InitConn /\ [][NextConn]_vars

\* C23 -- in the single-symbol loops every successful price fetch leaves
\* the connectivity error counter at 0, and the counter always equals the
\* number of consecutive failed fetches since the last success or reset.
C23_CounterCountsFailures ==
    [][fn.kind = "conn" =>
         /\ fn'.tick_ok => fn'.count = 0
         /\ fn'.count = fn'.fails
         /\ (~fn'.tick_ok /\ fn'.count # 0) => fn'.count = fn.count + 1]_vars

\* Three failures were counted and a successful fetch then put the counter
\* back to 0.
C23_Witness ==
    /\ fn.kind = "conn"
    /\ fn.tick_ok /\ fn.was = 3 /\ fn.count = 0
    /\ fn.branch = "ok"
    /\ fn.loop = "timed"

\* C24 -- connectivity protocol of the automated and continuous loops:
\* below 5 consecutive failed fetches the loop waits and retries; at 5 or
\* more, on a weekend it sleeps the extended interval and resets the
\* counter; on a weekday it checks the connection, resetting the counter
\* when the check succeeds and otherwise backing off the fixed wait with
\* the counter kept.  Every branch ends in another iteration.
C24_ConnectivityProtocol ==
    [][(fn.kind = "conn" /\ fn.loop \in {"auto", "continuous"}
          /\ ~fn'.tick_ok) =>
         LET c == fn.count + 1
         IN /\ c < 5 =>
                 /\ fn'.count = c /\ fn'.slept = 5
                 /\ fn'.branch = "retry"
            /\ (c >= 5 /\ fn'.weekend) =>
                 fn'.count = 0 /\ fn'.slept = 60
            /\ (c >= 5 /\ ~fn'.weekend /\ fn'.check_ok) =>
                 fn'.count = 0
            /\ (c >= 5 /\ ~fn'.weekend /\ ~fn'.check_ok) =>
                 fn'.count = c /\ fn'.slept = 30
            /\ fn'.next = "continue"]_vars

\* The fifth failure in a row on a weekday with the connection check
\* failing, followed by one more: the counter is kept and grows.
C24_Witness ==
    /\ fn.kind = "conn" /\ fn.loop = "auto"
    /\ fn.branch = "backoff"
    /\ fn.count = ERROR_THRESHOLD + 1
    /\ fn.slept = 30

(* -------------------- cadences of the control loops ------------------- *)
MaxCycles == 2

\* Intervals in seconds.
SIGNAL_CHECK_INTERVAL == 10
PERFORMANCE_UPDATE_INTERVAL == 30
STATUS_LOG_INTERVAL == 300
RISK_CHECK_INTERVAL == 60
SECONDS_PER_HOUR == 3600

\* Seconds between the starts of two iterations; the long ones are slow
\* cycles.
CycleLengths == {1, SIGNAL_CHECK_INTERVAL, RISK_CHECK_INTERVAL,
                 STATUS_LOG_INTERVAL, SECONDS_PER_HOUR}

AutoTasks == {"optimization", "update", "signal", "status"}
SymbolSet == {get_enabled_symbols[i] : i \in 1..Len(get_enabled_symbols)}
MultiTasks == SymbolSet \cup {"risk", "status"}

\* The interval of a periodic sub-task; hours = optimization_interval_hours.
interval_of(task, hours) ==
    IF task = "optimization" THEN hours * SECONDS_PER_HOUR
    ELSE IF task = "update" THEN PERFORMANCE_UPDATE_INTERVAL
    ELSE IF task = "status" THEN STATUS_LOG_INTERVAL
    ELSE IF task = "risk" THEN RISK_CHECK_INTERVAL
    ELSE SIGNAL_CHECK_INTERVAL

\* (now - last).total_seconds() >= interval
elapsed(stamps, now, task, hours) ==
    now - stamps[task] >= interval_of(task, hours)

\* Variant of the automated loop's iteration with fixed-rate timers: a
\* task runs once for every interval that has passed and its timer
\* advances by the intervals served.
auto_iteration_fixed_rate(stamps, now, hours, opt_ok, tick_ok, rates_ok) ==
    LET cut == tick_ok /\ elapsed(stamps, now, "signal", hours) /\ ~rates_ok
        f(t) == IF t = "optimization" THEN elapsed(stamps, now, t, hours)
                ELSE IF t = "update"
                THEN tick_ok /\ elapsed(stamps, now, t, hours)
                ELSE IF t = "signal"
                THEN tick_ok /\ elapsed(stamps, now, t, hours) /\ rates_ok
                ELSE tick_ok /\ ~cut /\ elapsed(stamps, now, t, hours)
        n(t) == IF f(t) THEN (now - stamps[t]) \div interval_of(t, hours)
                ELSE 0
    IN [last |-> [t \in AutoTasks |->
                     stamps[t] + n(t) * interval_of(t, hours)],
        fired |-> [t \in AutoTasks |-> n(t)],
        optimized |-> f("optimization") /\ opt_ok]

\* One iteration of run_automated_trading as far as its timers go: the
\* optimization block (its timer is set after the try, whatever the
\* result), then the price fetch (no tick: continue), the statistics
\* update, the signal block (no bars: continue, timer not set) and the
\* status log.
auto_iteration(stamps, now, hours, opt_ok, tick_ok, rates_ok) ==
    LET cut == tick_ok /\ elapsed(stamps, now, "signal", hours) /\ ~rates_ok
        f(t) == IF t = "optimization" THEN elapsed(stamps, now, t, hours)
                ELSE IF t = "update"
                THEN tick_ok /\ elapsed(stamps, now, t, hours)
                ELSE IF t = "signal"
                THEN tick_ok /\ elapsed(stamps, now, t, hours) /\ rates_ok
                ELSE tick_ok /\ ~cut /\ elapsed(stamps, now, t, hours)
    IN [last |-> [t \in AutoTasks |-> IF f(t) THEN now ELSE stamps[t]],
        fired |-> [t \in AutoTasks |-> IF f(t) THEN 1 ELSE 0],
        optimized |-> f("optimization") /\ opt_ok]

\* What processing one symbol can meet: no tick, an exception out of
\* _check_symbol_signal, or neither.
SymbolOutcomes == {"ok", "no_tick", "raised"}

IndexOf(symbol) ==
    CHOOSE i \in 1..Len(get_enabled_symbols) : get_enabled_symbols[i] = symbol

\* Variant of the multi-symbol iteration whose symbol loop ends at the
\* first symbol that fails.
multi_iteration_stops_at_failure(stamps, errors, now, outcome) ==
    LET tick(s) == outcome[s] # "no_tick"
        evaluated(s) == tick(s) /\ elapsed(stamps, now, s, 1)
        raised(s) == evaluated(s) /\ outcome[s] = "raised"
        failed(s) == ~tick(s) \/ raised(s)
        reached(s) == \A u \in SymbolSet :
                         IndexOf(u) < IndexOf(s) => ~failed(u)
        f(t) == IF t \in SymbolSet THEN reached(t) /\ evaluated(t)
                ELSE elapsed(stamps, now, t, 1)
    IN [last |-> [t \in MultiTasks |->
                     IF f(t) /\ ~(t \in SymbolSet /\ raised(t))
                     THEN now ELSE stamps[t]],
        fired |-> [t \in MultiTasks |-> IF f(t) THEN 1 ELSE 0],
        errors |-> [s \in SymbolSet |->
                      IF ~reached(s) THEN errors[s]
                      ELSE IF ~tick(s) THEN errors[s] + 1
                      ELSE IF raised(s) THEN 1 ELSE 0]]

\* One iteration of run_multi_symbol_monitoring: for every enabled symbol
\* the price fetch, the signal check when due and the error count; then
\* the risk check and the detailed log when due.
multi_iteration(stamps, errors, now, outcome) ==
    LET tick(s) == outcome[s] # "no_tick"
        evaluated(s) == tick(s) /\ elapsed(stamps, now, s, 1)
        raised(s) == evaluated(s) /\ outcome[s] = "raised"
        f(t) == IF t \in SymbolSet THEN evaluated(t)
                ELSE elapsed(stamps, now, t, 1)
    IN [last |-> [t \in MultiTasks |->
                     IF f(t) /\ ~(t \in SymbolSet /\ raised(t))
                     THEN now ELSE stamps[t]],
        fired |-> [t \in MultiTasks |-> IF f(t) THEN 1 ELSE 0],
        errors |-> [s \in SymbolSet |->
                      IF ~tick(s) THEN errors[s] + 1
                      ELSE IF raised(s) THEN 1 ELSE 0]]

\* Every timer is set to datetime.now() before the loop, every error count
\* to 0.
InitCycle ==
    /\ mode \in {"auto", "multi"}
    /\ strategy = MA_NAME
    /\ fn = [kind |-> "cycle", cycles |-> 0, now |-> 0, hours |-> 1,
             last |-> [t \in IF mode = "auto" THEN AutoTasks
                             ELSE MultiTasks |-> 0],
             fired |-> [t \in IF mode = "auto" THEN AutoTasks
                              ELSE MultiTasks |-> 0],
             errors |-> [s \in SymbolSet |-> 0],
             opt_ok |-> TRUE, optimized |-> FALSE,
             tick_ok |-> TRUE, rates_ok |-> TRUE,
             outcome |-> [s \in SymbolSet |-> "ok"]]
    /\ InitRest

AutoIteration ==
    /\ fn.kind = "cycle" /\ mode = "auto" /\ fn.cycles < MaxCycles
    /\ \E dt \in CycleLengths : \E opt_ok \in BOOLEAN :
       \E tick_ok \in BOOLEAN : \E rates_ok \in BOOLEAN :
         LET now == fn.now + dt
             r == auto_iteration(fn.last, now, fn.hours, opt_ok, tick_ok,
                                 rates_ok)
         IN fn' = [fn EXCEPT !.cycles = @ + 1, !.now = now,
                             !.last = r.last, !.fired = r.fired,
                             !.opt_ok = opt_ok, !.optimized = r.optimized,
                             !.tick_ok = tick_ok, !.rates_ok = rates_ok]
    /\ OptFrame

MultiIteration ==
    /\ fn.kind = "cycle" /\ mode = "multi" /\ fn.cycles < MaxCycles
    /\ \E dt \in CycleLengths \ {SECONDS_PER_HOUR} :
       \E outcome \in [SymbolSet -> SymbolOutcomes] :
         LET now == fn.now + dt
             r == multi_iteration(fn.last, fn.errors, now, outcome)
         IN fn' = [fn EXCEPT !.cycles = @ + 1, !.now = now,
                             !.last = r.last, !.fired = r.fired,
                             !.errors = r.errors, !.outcome = outcome]
    /\ OptFrame

NextCycle ==
    \/ AutoIteration
    \/ MultiIteration

SpecCycle == InitCycle /\ [][NextCycle]_vars

\* C26: in a cycle of the multi-symbol loop every enabled symbol is
\* processed by its own outcome alone, whatever happened to the others: a
\* symbol without a price gets its error count incremented and is not
\* evaluated; a symbol that is due and whose evaluation raised gets its
\* error count incremented (from the 0 its successful price fetch left) and
\* keeps its last-signal-check time; a symbol that is due and meets no
\* failure is evaluated and stamped; and a symbol whose evaluation raised
\* is evaluated again in the next cycle that has a price for it.
C26_SymbolIsolation ==
    [][(fn.kind = "cycle" /\ mode = "multi") =>
        \A s \in SymbolSet :
          LET out == fn'.outcome[s]
              due == fn'.now - fn.last[s] >= SIGNAL_CHECK_INTERVAL
          IN /\ out = "no_tick" =>
                  /\ fn'.errors[s] = fn.errors[s] + 1
                  /\ fn'.fired[s] = 0
                  /\ fn'.last[s] = fn.last[s]
             /\ (out = "raised" /\ due) =>
                  /\ fn'.errors[s] = 1
                  /\ fn'.fired[s] = 1
                  /\ fn'.last[s] = fn.last[s]
             /\ (out = "ok" /\ due) =>
                  /\ fn'.errors[s] = 0
                  /\ fn'.fired[s] = 1
                  /\ fn'.last[s] = fn'.now
             /\ (out # "no_tick" /\ ~due) =>
                  /\ fn'.errors[s] = 0
                  /\ fn'.fired[s] = 0
                  /\ fn'.last[s] = fn.last[s]
             /\ (fn.outcome[s] = "raised" /\ fn.fired[s] = 1
                 /\ out # "no_tick") => fn'.fired[s] = 1]_vars

\* A cycle in which the first symbol's evaluation raised, the second had
\* no price and the third was evaluated and stamped.
C26_Witness ==
    /\ fn.kind = "cycle" /\ mode = "multi"
    /\ fn.outcome["BTCUSD"] = "raised" /\ fn.fired["BTCUSD"] = 1
    /\ fn.errors["BTCUSD"] = 1 /\ fn.last["BTCUSD"] < fn.now
    /\ fn.outcome["ETHUSD"] = "no_tick" /\ fn.errors["ETHUSD"] = 2
    /\ fn.fired["XAUUSD"] = 1 /\ fn.last["XAUUSD"] = fn.now

(* ------------------------- get_real_time_price ------------------------ *)
MAX_PRICE_RETRIES == 3

\* Bid and ask of a tick the terminal can hand out.
TickPrices == {0, 1}

\* What one attempt meets: the connection is down, symbol_info_tick gives
\* None and the symbol is unknown ("no_symbol") or known ("no_tick"), a
\* call raises, or a tick arrives.
AttemptOutcomes ==
    [kind : {"conn_down", "no_symbol", "no_tick", "raised"},
     bid : {0}, ask : {0}]
    \cup [kind : {"tick"}, bid : TickPrices, ask : TickPrices]

\* The return value None.
NoPrice == [ok |-> FALSE, bid |-> 0, ask |-> 0]

\* Variant of the attempt that rejects a tick only when both prices are
\* not positive.
price_attempt_either_price(attempt, o, max_retries) ==
    LET final == ~(attempt < max_retries - 1)
        retry(s) == [returned |-> final, result |-> NoPrice,
                     slept |-> IF final THEN 0 ELSE s]
    IN IF o.kind = "no_symbol"
       THEN [returned |-> TRUE, result |-> NoPrice, slept |-> 0]
       ELSE IF o.kind \in {"conn_down", "no_tick", "raised"} THEN retry(2)
       ELSE IF o.bid <= 0 /\ o.ask <= 0 THEN retry(1)
       ELSE [returned |-> TRUE,
             result |-> [ok |-> TRUE, bid |-> o.bid, ask |-> o.ask],
             slept |-> 0]

\* The body of the loop "for attempt in range(max_retries)".
price_attempt(attempt, o, max_retries) ==
    LET final == ~(attempt < max_retries - 1)
        retry(s) == [returned |-> final, result |-> NoPrice,
                     slept |-> IF final THEN 0 ELSE s]
    IN IF o.kind = "no_symbol"
       THEN [returned |-> TRUE, result |-> NoPrice, slept |-> 0]
       ELSE IF o.kind \in {"conn_down", "no_tick", "raised"} THEN retry(2)
       ELSE IF o.bid <= 0 \/ o.ask <= 0 THEN retry(1)
       ELSE [returned |-> TRUE,
             result |-> [ok |-> TRUE, bid |-> o.bid, ask |-> o.ask],
             slept |-> 0]

InitPrice ==
    /\ mode = "auto"
    /\ strategy = MA_NAME
    /\ \E m \in 0..MAX_PRICE_RETRIES :
         fn = [kind |-> "price", max_retries |-> m, attempt |-> 0,
               trace |-> <<>>, returned |-> FALSE, result |-> NoPrice,
               slept |-> 0]
    /\ InitRest

\* One pass of the loop body.
PriceAttempt ==
    /\ fn.kind = "price" /\ ~fn.returned /\ fn.attempt < fn.max_retries
    /\ \E o \in AttemptOutcomes :
         LET r == price_attempt(fn.attempt, o, fn.max_retries)
         IN fn' = [fn EXCEPT !.attempt = @ + 1,
                             !.trace = Append(@, o),
                             !.returned = r.returned,
                             !.result = r.result,
                             !.slept = r.slept]
    /\ OptFrame

\* The "return None" after the loop.
PriceExhausted ==
    /\ fn.kind = "price" /\ ~fn.returned /\ ~(fn.attempt < fn.max_retries)
    /\ fn' = [fn EXCEPT !.returned = TRUE, !.result = NoPrice, !.slept = 0]
    /\ OptFrame

NextPrice ==
    \/ PriceAttempt
    \/ PriceExhausted

SpecPrice == InitPrice /\ [][NextPrice]_vars

\* An attempt that did not produce a tick with both prices positive.
AttemptFailed(o) == o.kind # "tick" \/ ~(o.bid > 0 /\ o.ask > 0)

\* C27: get_real_time_price makes at most max_retries (at most 3)
\* attempts, and after max_retries attempts it has returned; a returned
\* tick has bid > 0 and ask > 0 and is the tick of the last attempt; None
\* is returned only when every attempt made failed, and it is returned
\* once all max_retries attempts failed.
C27_BoundedPriceFetch ==
    fn.kind = "price" =>
      /\ Len(fn.trace) = fn.attempt
      /\ fn.attempt <= fn.max_retries
      /\ fn.attempt <= MAX_PRICE_RETRIES
      /\ (fn.attempt = fn.max_retries /\ fn.attempt > 0) => fn.returned
      /\ (fn.returned /\ fn.result.ok) =>
            /\ fn.result.bid > 0 /\ fn.result.ask > 0
            /\ fn.attempt > 0
            /\ fn.trace[fn.attempt].kind = "tick"
            /\ fn.trace[fn.attempt].bid = fn.result.bid
            /\ fn.trace[fn.attempt].ask = fn.result.ask
      /\ (fn.returned /\ ~fn.result.ok) =>
            \A i \in 1..fn.attempt : AttemptFailed(fn.trace[i])
      /\ (fn.attempt = fn.max_retries
          /\ \A i \in 1..fn.attempt : AttemptFailed(fn.trace[i])) =>
            (fn.returned => ~fn.result.ok)
      /\ ~fn.returned =>
            \A i \in 1..fn.attempt : AttemptFailed(fn.trace[i])

\* Three attempts were made, a tick with a zero ask among them, and None
\* was returned.
C27_Witness ==
    /\ fn.kind = "price" /\ fn.max_retries = MAX_PRICE_RETRIES
    /\ fn.attempt = MAX_PRICE_RETRIES
    /\ fn.trace[1].kind = "conn_down"
    /\ fn.trace[2] = [kind |-> "tick", bid |-> 1, ask |-> 0]
    /\ fn.trace[3].kind = "raised"
    /\ fn.returned /\ ~fn.result.ok

\* The timers of the loop that is running.
CycleTasks == DOMAIN fn.last

\* Whether the iteration that led to the next state got as far as the
\* check of the task: a failed price fetch ends the single-symbol
\* iteration (and the processing of that symbol in the multi-symbol loop),
\* and so does a due signal check without bar data in the single-symbol
\* loop.
CheckReached(t) ==
    IF mode = "auto"
    THEN IF t = "optimization" THEN TRUE
         ELSE IF t = "update" THEN fn'.tick_ok
         ELSE IF t = "signal" THEN fn'.tick_ok /\ fn'.rates_ok
         ELSE /\ fn'.tick_ok
              /\ ~(elapsed(fn.last, fn'.now, "signal", fn.hours)
                   /\ ~fn'.rates_ok)
    ELSE IF t \in SymbolSet THEN fn'.outcome[t] # "no_tick"
         ELSE TRUE

\* The evaluation of the symbol raised in the iteration that led to the
\* next state.
EvaluationRaised(t) ==
    mode = "multi" /\ t \in SymbolSet /\ fn'.outcome[t] = "raised"

ScenarioBars == 200

\* Close series by shape: strictly rising ones (linear, convex, concave),
\* a falling one, a flat one, and a fall followed by a rise (valley) or a
\* rise followed by a fall (peak) that turn at bar "turn".
RisingShapes == {"linear", "convex", "concave"}
SeriesShapes == RisingShapes \cup {"falling", "flat", "valley", "peak"}
TurnBar == 60

CloseAt(shape, i) ==
    IF shape = "linear" THEN 100 + i
    ELSE IF shape = "convex" THEN 100 + i * i
    ELSE IF shape = "concave" THEN 100 + 1000 * i - i * i
    ELSE IF shape = "falling" THEN 1000 - i
    ELSE IF shape = "flat" THEN 100
    ELSE IF shape = "valley"
    THEN IF i <= TurnBar THEN 1000 - i ELSE 1000 - 2 * TurnBar + i
    ELSE IF i <= TurnBar THEN 100 + i ELSE 100 + 2 * TurnBar - i

RECURSIVE SumCloses(_, _, _)
SumCloses(shape, a, b) ==
    IF a > b THEN 0 ELSE CloseAt(shape, a) + SumCloses(shape, a + 1, b)

\* df['close'].rolling(window).mean() at bar i: undefined (NaN) before the
\* window is full, else the mean as the fraction sum / window.
rolling_mean(shape, window, i) ==
    IF i < window THEN [ok |-> FALSE, sum |-> 0, window |-> window]
    ELSE [ok |-> TRUE, sum |-> SumCloses(shape, i - window + 1, i),
          window |-> window]

MeanLess(a, b) == a.sum * b.window < b.sum * a.window

\* Column assignment df[key] = value.
PutColumn(cols, key, value) ==
    [k \in DOMAIN cols \cup {key} |-> IF k = key THEN value ELSE cols[k]]

\* MAStrategy.calculate_indicators: the columns of the frame, named by
\* their number (MA10 is column 10), each with the window of the rolling
\* mean it holds after the four assignments.
MA_calculate_indicators(ma_short, ma_long) ==
    LET c1 == PutColumn(EmptyFn, ma_short, ma_short)
        c2 == PutColumn(c1, ma_long, ma_long)
        c3 == PutColumn(c2, 10, c2[ma_short])
        c4 == PutColumn(c3, 20, c3[ma_long])
    IN c4

\* Variant of the signal that takes undefined previous averages as a short
\* average below the long one.
MA_generate_signal_from_undefined(shape, n, ma_short, ma_long) ==
    LET cols == MA_calculate_indicators(ma_short, ma_long)
        latest_short == rolling_mean(shape, cols[ma_short], n)
        latest_long == rolling_mean(shape, cols[ma_long], n)
        prev_short == rolling_mean(shape, cols[ma_short], n - 1)
        prev_long == rolling_mean(shape, cols[ma_long], n - 1)
    IN IF n < 2 THEN None
       ELSE IF ~latest_short.ok \/ ~latest_long.ok THEN None
       ELSE IF ~prev_short.ok \/ ~prev_long.ok
       THEN IF MeanLess(latest_long, latest_short) THEN "BUY" ELSE None
       ELSE IF MeanLess(prev_short, prev_long)
               /\ MeanLess(latest_long, latest_short) THEN "BUY"
       ELSE IF MeanLess(prev_long, prev_short)
               /\ MeanLess(latest_short, latest_long) THEN "SELL"
       ELSE None

\* calculate_indicators followed by MAStrategy.generate_signal on the
\* first n bars of the series.
MA_generate_signal(shape, n, ma_short, ma_long) ==
    LET cols == MA_calculate_indicators(ma_short, ma_long)
        latest_short == rolling_mean(shape, cols[ma_short], n)
        latest_long == rolling_mean(shape, cols[ma_long], n)
        prev_short == rolling_mean(shape, cols[ma_short], n - 1)
        prev_long == rolling_mean(shape, cols[ma_long], n - 1)
    IN IF n < 2 THEN None
       ELSE IF ~latest_short.ok \/ ~latest_long.ok
               \/ ~prev_short.ok \/ ~prev_long.ok THEN None
       ELSE IF MeanLess(prev_short, prev_long)
               /\ MeanLess(latest_long, latest_short) THEN "BUY"
       ELSE IF MeanLess(prev_long, prev_short)
               /\ MeanLess(latest_short, latest_long) THEN "SELL"
       ELSE None

\* The default parameters and pairs from the optimizer's ranges
\* (ma_short 5..20, ma_long 10..50).
MAParamSets ==
    {[ma_short |-> 10, ma_long |-> 20], [ma_short |-> 5, ma_long |-> 10],
     [ma_short |-> 20, ma_long |-> 30], [ma_short |-> 5, ma_long |-> 15]}

InitMA ==
    /\ mode = "auto"
    /\ strategy = MA_NAME
    /\ \E shape \in SeriesShapes : \E params \in MAParamSets :
         fn = [kind |-> "ma", shape |-> shape, params |-> params,
               i |-> 0, signal |-> None, buys |-> 0, sells |-> 0]
    /\ InitRest

\* The next bar arrives and the signal is taken on the bars so far.
MAWalk ==
    /\ fn.kind = "ma" /\ fn.i < ScenarioBars
    /\ LET n == fn.i + 1
           sig == MA_generate_signal(fn.shape, n, fn.params.ma_short,
                                     fn.params.ma_long)
       IN fn' = [fn EXCEPT !.i = n, !.signal = sig,
                           !.buys = IF sig = "BUY" THEN @ + 1 ELSE @,
                           !.sells = IF sig = "SELL" THEN @ + 1 ELSE @]
    /\ OptFrame

NextMA ==
    \/ MAWalk

SpecMA == InitMA /\ [][NextMA]_vars

\* The scenario: a strictly rising series walked with short = 10 and
\* long = 20.
RisingScenario ==
    /\ fn.kind = "ma" /\ fn.shape \in RisingShapes
    /\ fn.params = [ma_short |-> 10, ma_long |-> 20]

\* C29 as stated: after the 200 bars of the rising scenario exactly one
\* Buy and no Sell have been signalled.
C29_AsStated ==
    (RisingScenario /\ fn.i = ScenarioBars) => (fn.buys = 1 /\ fn.sells = 0)

\* C29 as amended: over the whole rising scenario no Buy and no Sell is
\* signalled.
C29_NoCrossover ==
    RisingScenario => (fn.buys = 0 /\ fn.sells = 0 /\ fn.signal = None)

\* The end of the rising scenario: all bars walked, both averages defined
\* at the last two bars, the short one above the long one at both.
C29_Witness ==
    /\ RisingScenario /\ fn.shape = "linear" /\ fn.i = ScenarioBars
    /\ fn.buys = 0 /\ fn.sells = 0
    /\ MeanLess(rolling_mean(fn.shape, 20, fn.i - 1),
                rolling_mean(fn.shape, 10, fn.i - 1))
    /\ MeanLess(rolling_mean(fn.shape, 20, fn.i),
                rolling_mean(fn.shape, 10, fn.i))

\* C30: on the bars so far the signal is Buy exactly when both averages
\* are defined at the previous and the current bar and the short average
\* is below the long one at the previous bar and above it at the current
\* bar, Sell exactly for the opposite crossing, and None otherwise, in
\* particular with fewer than 2 bars or an undefined average.
C30_CrossoverRule ==
    fn.kind = "ma" =>
      LET s == fn.params.ma_short
          l == fn.params.ma_long
          ls == rolling_mean(fn.shape, s, fn.i)
          ll == rolling_mean(fn.shape, l, fn.i)
          ps == rolling_mean(fn.shape, s, fn.i - 1)
          pl == rolling_mean(fn.shape, l, fn.i - 1)
          defined == fn.i >= 2 /\ ls.ok /\ ll.ok /\ ps.ok /\ pl.ok
          up == defined /\ MeanLess(ps, pl) /\ MeanLess(ll, ls)
          down == defined /\ MeanLess(pl, ps) /\ MeanLess(ls, ll)
      IN fn.signal = IF up THEN "BUY" ELSE IF down THEN "SELL" ELSE None

(* ----------------------------- RSI strategy --------------------------- *)
\* An undefined RSI (NaN); defined values lie in 0..100.
RSI_NAN == -1

RSIParamSets ==
    { [rsi_period |-> 14, oversold |-> 30, overbought |-> 70],
      [rsi_period |-> 10, oversold |-> 35, overbought |-> 65] }

\* RSI values on both sides of the thresholds, the thresholds themselves
\* and the undefined value.
RSIValues == {RSI_NAN, 28, 30, 32, 35, 36, 64, 65, 68, 70, 72}

\* Variant of the RSI signal that requires the previous RSI strictly
\* beyond the threshold.
RSI_generate_signal_strict(n_bars, rsi_prev, rsi_current, params) ==
    IF n_bars < params.rsi_period + 5 THEN None
    ELSE IF rsi_current = RSI_NAN \/ rsi_prev = RSI_NAN THEN None
    ELSE IF rsi_prev < params.oversold /\ rsi_current > params.oversold
    THEN "BUY"
    ELSE IF rsi_prev > params.overbought /\ rsi_current < params.overbought
    THEN "SELL"
    ELSE None

\* RSIStrategy.generate_signal on a frame of n_bars bars whose last two RSI
\* values are rsi_prev and rsi_current.
RSI_generate_signal(n_bars, rsi_prev, rsi_current, params) ==
    IF n_bars < params.rsi_period + 5 THEN None
    ELSE IF rsi_current = RSI_NAN \/ rsi_prev = RSI_NAN THEN None
    ELSE IF rsi_prev <= params.oversold /\ rsi_current > params.oversold
    THEN "BUY"
    ELSE IF rsi_prev >= params.overbought /\ rsi_current < params.overbought
    THEN "SELL"
    ELSE None

InitRSI ==
    /\ mode = "auto"
    /\ strategy = RSI_NAME
    /\ \E params \in RSIParamSets :
         fn \in [kind : {"rsi"}, state : {"in"}, params : {params},
                 n_bars : {params.rsi_period + 4, params.rsi_period + 5},
                 rsi_prev : RSIValues, rsi_current : RSIValues,
                 result : {None}]
    /\ InitRest

EvalRSI ==
    /\ fn.kind = "rsi" /\ fn.state = "in"
    /\ fn' = [fn EXCEPT !.state = "out",
                 !.result = RSI_generate_signal(fn.n_bars, fn.rsi_prev,
                                                fn.rsi_current, fn.params)]
    /\ OptFrame

NextRSI ==
    \/ EvalRSI

SpecRSI == InitRSI /\ [][NextRSI]_vars

\* C31: on a frame shorter than rsi_period + 5 bars the signal is None; on
\* a longer frame with both RSI values defined it is Buy exactly when the
\* previous RSI is at or below oversold and the current one above it, Sell
\* exactly when the previous RSI is at or above overbought and the current
\* one below it, and None otherwise; [28, 32] against 30 gives Buy and
\* [72, 68] against 70 gives Sell.
C31_RSIBoundary ==
    (fn.kind = "rsi" /\ fn.state = "out") =>
      LET short == fn.n_bars < fn.params.rsi_period + 5
          defined == fn.rsi_prev # RSI_NAN /\ fn.rsi_current # RSI_NAN
          up == /\ fn.rsi_prev <= fn.params.oversold
                /\ fn.rsi_current > fn.params.oversold
          down == /\ fn.rsi_prev >= fn.params.overbought
                  /\ fn.rsi_current < fn.params.overbought
      IN /\ short => fn.result = None
         /\ (~short /\ defined) =>
              /\ up <=> fn.result = "BUY"
              /\ down <=> fn.result = "SELL"
         /\ (~short /\ ~defined) => fn.result = None
         /\ (~short /\ fn.params.oversold = 30 /\ fn.rsi_prev = 28
             /\ fn.rsi_current = 32) => fn.result = "BUY"
         /\ (~short /\ fn.params.overbought = 70 /\ fn.rsi_prev = 72
             /\ fn.rsi_current = 68) => fn.result = "SELL"

\* The previous RSI exactly at the oversold threshold 30, the current one
\* at 32, on a frame of rsi_period + 5 bars: Buy.
C31_Witness ==
    /\ fn.kind = "rsi" /\ fn.state = "out"
    /\ fn.params.oversold = 30 /\ fn.n_bars = fn.params.rsi_period + 5
    /\ fn.rsi_prev = 30 /\ fn.rsi_current = 32
    /\ fn.result = "BUY"

(* --------------------------- DKLL indicators -------------------------- *)
\* The sign of a float, or "nan".
FloatSigns == {"neg", "zero", "pos", "nan"}

\* What a bar gives the normalisation: the sign of TYP - MA and the mean
\* absolute deviation of the window ("nan" while the window is not full,
\* "zero" when every price in it is the same, in which case TYP = MA).
Deviations == {"nan", "zero", "pos"}
Normalised ==
    {x \in [diff : {"neg", "zero", "pos"}, avedev : Deviations] :
        x.avedev = "zero" => x.diff = "zero"}

\* (TYP - MA) / (0.015 * AVEDEV) in float arithmetic: 0/0 and x/nan are
\* nan, x/0 is an infinity of the sign of x.
normalise(x) ==
    IF x.avedev = "nan" THEN "nan"
    ELSE IF x.avedev = "zero"
    THEN IF x.diff = "zero" THEN "nan" ELSE x.diff
    ELSE x.diff

\* Variant of the DK fold without the forward fill.
dk_fold_no_fill(prev_dk, strength, a1_vs_a2) ==
    LET long_condition == strength = "pos" /\ a1_vs_a2 = "pos"
        short_condition == strength = "neg" /\ a1_vs_a2 = "neg"
    IN IF short_condition THEN -1
       ELSE IF long_condition THEN 1
       ELSE 0

\* DK at a bar from the DK of the bar before (0 before the first bar):
\* the two conditions, then replace(0, nan).ffill().fillna(0).
\* a1_vs_a2 is the sign of A1 - A2, "nan" while A1 is undefined.
dk_fold(prev_dk, strength, a1_vs_a2) ==
    LET long_condition == strength = "pos" /\ a1_vs_a2 = "pos"
        short_condition == strength = "neg" /\ a1_vs_a2 = "neg"
    IN IF short_condition THEN -1
       ELSE IF long_condition THEN 1
       ELSE prev_dk

\* np.where(POWER >= 0, 1, -1)
ll_of(power) == IF power \in {"zero", "pos"} THEN 1 ELSE -1

InitIndicators ==
    /\ mode = "auto"
    /\ strategy = DKLL_NAME
    /\ fn = [kind |-> "indicators", i |-> 0, prev_dk |-> 0, dk |-> 0,
             ll |-> 1, dl |-> 1,
             s |-> [diff |-> "zero", avedev |-> "pos"],
             p |-> [diff |-> "zero", avedev |-> "pos"],
             a1_vs_a2 |-> "zero"]
    /\ InitRest

\* The indicator columns of the next bar of the frame.
IndicatorBar ==
    /\ fn.kind = "indicators" /\ fn.i < MaxBars
    /\ \E s \in Normalised : \E p \in Normalised : \E a \in FloatSigns :
         LET dk == dk_fold(fn.dk, normalise(s), a)
             ll == ll_of(normalise(p))
         IN fn' = [fn EXCEPT !.i = @ + 1, !.prev_dk = fn.dk, !.dk = dk,
                             !.ll = ll, !.dl = DL(dk, ll),
                             !.s = s, !.p = p, !.a1_vs_a2 = a]
    /\ OptFrame

NextIndicators ==
    \/ IndicatorBar

SpecIndicators == InitIndicators /\ [][NextIndicators]_vars

\* C32: at every bar DK is +1 when strength > 0 and A1 > A2, -1 when
\* strength < 0 and A1 < A2, and the DK of the previous bar otherwise (0
\* before the first bar); DK is in {-1, 0, 1}, LL in {-1, 1} and
\* DL = DK + LL in -2..2.
C32_DKFold ==
    (fn.kind = "indicators" /\ fn.i > 0) =>
      LET strength == normalise(fn.s)
          long == strength = "pos" /\ fn.a1_vs_a2 = "pos"
          short == strength = "neg" /\ fn.a1_vs_a2 = "neg"
      IN /\ long => fn.dk = 1
         /\ short => fn.dk = -1
         /\ (~long /\ ~short) => fn.dk = fn.prev_dk
         /\ fn.i = 1 => fn.prev_dk = 0
         /\ fn.dk \in {-1, 0, 1}
         /\ fn.ll \in {-1, 1}
         /\ fn.dl = fn.dk + fn.ll
         /\ fn.dl \in -2..2

\* An indecisive bar after a bearish one: DK stays -1.
C32_Witness ==
    /\ fn.kind = "indicators" /\ fn.i > 1
    /\ normalise(fn.s) = "pos" /\ fn.a1_vs_a2 = "neg"
    /\ fn.prev_dk = -1 /\ fn.dk = -1

\* C33: at a bar whose window has a zero or undefined mean absolute
\* deviation, DK and LL are what they are for a strength and a power of
\* exactly zero, and DL is +2 or -2 only if it is so for a strength and a
\* power of zero.
C33_ZeroDeviationNeutral ==
    (fn.kind = "indicators" /\ fn.i > 0) =>
      /\ fn.s.avedev \in {"zero", "nan"} =>
            fn.dk = dk_fold(fn.prev_dk, "zero", fn.a1_vs_a2)
      /\ fn.p.avedev \in {"zero", "nan"} => fn.ll = ll_of("zero")
      /\ (fn.s.avedev \in {"zero", "nan"} /\ fn.p.avedev \in {"zero", "nan"})
            => fn.dl = DL(dk_fold(fn.prev_dk, "zero", fn.a1_vs_a2),
                          ll_of("zero"))

(* ---------------------------- get_statistics -------------------------- *)
\* Closed trades as the statistics read them.
StatTrades == [profit : {-1, 0, 1}, duration : {1, 2}]
StatLedgers == UNION {[1..n -> StatTrades] : n \in 0..MaxPos}

\* What mt5.account_info() gives a call: a record with a balance, or
\* nothing (None or an exception).
AccountReads == [ok : BOOLEAN, balance : {100, 110}]

SelectProfits(tr, Keep(_)) ==
    SelectSeq([i \in 1..Len(tr) |-> tr[i].profit], Keep)

IsWin(p) == p > 0
IsLoss(p) == p < 0

RECURSIVE SumDurations(_)
SumDurations(tr) ==
    IF tr = <<>> THEN 0 ELSE Head(tr).duration + SumDurations(Tail(tr))

\* _calculate_consecutive_stats: the run lengths after the first k trades
\* as [wins, losses, max_wins, max_losses].
RECURSIVE consecutive_stats(_, _)
consecutive_stats(tr, k) ==
    IF k = 0 THEN [wins |-> 0, losses |-> 0, max_wins |-> 0, max_losses |-> 0]
    ELSE LET c == consecutive_stats(tr, k - 1)
             p == tr[k].profit
         IN IF p > 0
            THEN [wins |-> c.wins + 1, losses |-> 0,
                  max_wins |-> Max2(c.max_wins, c.wins + 1),
                  max_losses |-> c.max_losses]
            ELSE IF p < 0
            THEN [wins |-> 0, losses |-> c.losses + 1,
                  max_wins |-> c.max_wins,
                  max_losses |-> Max2(c.max_losses, c.losses + 1)]
            ELSE [wins |-> 0, losses |-> 0, max_wins |-> c.max_wins,
                  max_losses |-> c.max_losses]

\* get_statistics: the aggregates of the closed list, and the balance read
\* from the terminal during the call.
get_statistics(tr, session_start_balance, account) ==
    LET wins == SelectProfits(tr, IsWin)
        losses == SelectProfits(tr, IsLoss)
        gross_profit == SumProfit(wins)
        gross_loss == Abs(SumProfit(losses))
        c == consecutive_stats(tr, Len(tr))
        current_balance == IF account.ok THEN account.balance
                           ELSE session_start_balance
    IN IF Len(tr) = 0
       THEN [total_trades |-> 0, winning_trades |-> 0, losing_trades |-> 0,
             win_rate |-> Rat(0, 1), total_profit |-> 0,
             gross_profit |-> 0, gross_loss |-> 0,
             profit_factor |-> Rat(0, 1),
             max_consecutive_wins |-> 0, max_consecutive_losses |-> 0,
             avg_duration |-> Rat(0, 1),
             current_balance |-> session_start_balance,
             balance_change |-> 0]
       ELSE [total_trades |-> Len(tr), winning_trades |-> Len(wins),
             losing_trades |-> Len(losses),
             win_rate |-> Rat(Len(wins) * 100, Len(tr)),
             total_profit |-> SumProfit(SelectProfits(tr, LAMBDA p : TRUE)),
             gross_profit |-> gross_profit, gross_loss |-> gross_loss,
             profit_factor |-> IF gross_loss > 0
                               THEN Rat(gross_profit, gross_loss)
                               ELSE IF gross_profit > 0
                               THEN [n |-> 1, d |-> 0]
                               ELSE Rat(0, 1),
             max_consecutive_wins |-> c.max_wins,
             max_consecutive_losses |-> c.max_losses,
             avg_duration |-> Rat(SumDurations(tr), Len(tr)),
             current_balance |-> current_balance,
             balance_change |-> current_balance - session_start_balance]

InitStats ==
    /\ mode = "auto"
    /\ strategy = MA_NAME
    /\ \E tr \in StatLedgers :
         fn = [kind |-> "stats", trades |-> tr, open |-> {},
               session_start_balance |-> 100, calls |-> 0,
               first |-> get_statistics(<<>>, 100, [ok |-> FALSE,
                                                    balance |-> 100]),
               second |-> get_statistics(<<>>, 100, [ok |-> FALSE,
                                                     balance |-> 100])]
    /\ InitRest

\* A call of get_statistics; nothing is opened or closed between the
\* first and the second.
StatsCall ==
    /\ fn.kind = "stats" /\ fn.calls < 2
    /\ \E account \in AccountReads :
         LET r == get_statistics(fn.trades, fn.session_start_balance,
                                 account)
         IN fn' = IF fn.calls = 0
                  THEN [fn EXCEPT !.calls = 1, !.first = r]
                  ELSE [fn EXCEPT !.calls = 2, !.second = r]
    /\ OptFrame

NextStats ==
    \/ StatsCall

SpecStats == InitStats /\ [][NextStats]_vars

\* C34: two consecutive calls of get_statistics with no trade opened or
\* closed between them return the same value for every aggregate, the
\* balance change included.
C34_IdempotentStatistics ==
    (fn.kind = "stats" /\ fn.calls = 2) => fn.second = fn.first

(* --------------- calculate_position_size as a function ---------------- *)
\* The configured symbols, an unknown symbol, a disabled symbol and a
\* symbol with a per-trade cap above the volume steps.
SizeConfigs ==
    {ConfigOf(sym) : sym \in {"BTCUSD", "ETHUSD", "XAUUSD", "EURUSD"}}
    \cup {[ConfigOf("BTCUSD") EXCEPT !.enabled = FALSE],
          [ConfigOf("BTCUSD") EXCEPT !.volume_per_trade = 25,
                                     !.max_volume = 100]}

SizeBalances == {-10, 0, 1, 10, 30, 100}
SizeInfos == [ok : BOOLEAN, volume_min : {1, 5}, volume_step : {1, 2, 10}]

InitSize ==
    /\ mode = "multi"
    /\ strategy = MA_NAME
    /\ fn \in [kind : {"size"}, state : {"in"}, cfg : SizeConfigs,
               dynamic : BOOLEAN, balance : SizeBalances, info : SizeInfos,
               result : {0}]
    /\ InitRest

EvalSize ==
    /\ fn.kind = "size" /\ fn.state = "in"
    /\ fn' = [fn EXCEPT !.state = "out",
                 !.result = calculate_position_size(
                     fn.cfg,
                     [MONEY_MANAGEMENT EXCEPT
                         !.use_dynamic_volume = fn.dynamic],
                     fn.balance, fn.info)]
    /\ OptFrame

NextSize ==
    \/ EvalSize

SpecSize == InitSize /\ [][NextSize]_vars

\* C35: calculate_position_size returns 0 for a disabled or unknown
\* symbol and never more than volume_per_trade for an enabled one; with
\* dynamic sizing (and symbol information) the result is the smaller of
\* volume_per_trade and a multiple of the volume step, and
\* volume_per_trade itself otherwise.
C35_SizeCapped ==
    (fn.kind = "size" /\ fn.state = "out") =>
      IF ~fn.cfg.known \/ ~fn.cfg.enabled THEN fn.result = 0
      ELSE /\ fn.result <= fn.cfg.volume_per_trade
           /\ (fn.dynamic /\ fn.info.ok) =>
                \E k \in 0..fn.cfg.max_volume :
                   fn.result = Min2(k * fn.info.volume_step,
                                    fn.cfg.volume_per_trade)
           /\ ~(fn.dynamic /\ fn.info.ok) =>
                fn.result = fn.cfg.volume_per_trade

\* Dynamic sizing with a step of 0.02 gives 0.12 lots under a cap of 0.25.
C35_Witness ==
    /\ fn.kind = "size" /\ fn.state = "out"
    /\ fn.dynamic /\ fn.info.ok /\ fn.info.volume_step = 2
    /\ fn.cfg.volume_per_trade = 25 /\ fn.balance = 30
    /\ fn.result = 12

(* ------------------ the position scan of the risk check --------------- *)
\* For each position of positions_get(): its profit, what account_info()
\* gives should_close_position, and whether close_position comes back or
\* raises (order_send without a result).
ScanItems ==
    [profit : {-3, -2, 0, 3},
     acc : {[ok |-> FALSE, balance |-> 100], [ok |-> TRUE, balance |-> 0],
            [ok |-> TRUE, balance |-> 100], [ok |-> TRUE, balance |-> -100]},
     close : {"returned", "raise"}]
ScanLists == UNION {[1..n -> ScanItems] : n \in 0..MaxPos}

\* "for position in all_positions" of _check_portfolio_risk: which
\* positions should_close_position flagged, for which close_position was
\* called, and whether an exception ended the loop.
risk_scan(items) ==
    LET flag(i) == should_close_position(MONEY_MANAGEMENT, items[i].profit,
                                         items[i].acc)
        raised(i) == flag(i) /\ items[i].close = "raise"
        reached(i) == \A j \in 1..(i - 1) : ~raised(j)
    IN [flagged |-> [i \in 1..Len(items) |-> flag(i)],
        requested |-> [i \in 1..Len(items) |-> flag(i) /\ reached(i)],
        crashed |-> \E i \in 1..Len(items) : raised(i)]

InitScan ==
    /\ mode = "multi"
    /\ strategy = MA_NAME
    /\ \E items \in ScanLists :
         fn = [kind |-> "scan", state |-> "in", items |-> items,
               flagged |-> <<>>, requested |-> <<>>, crashed |-> FALSE]
    /\ InitRest

RiskScan ==
    /\ fn.kind = "scan" /\ fn.state = "in"
    /\ LET r == risk_scan(fn.items)
       IN fn' = [fn EXCEPT !.state = "out", !.flagged = r.flagged,
                           !.requested = r.requested, !.crashed = r.crashed]
    /\ OptFrame

NextScan ==
    \/ RiskScan

SpecScan == InitScan /\ [][NextScan]_vars

\* C36: a position is flagged exactly when the account is available with
\* a positive balance, the profit is negative and |profit| / balance is
\* above max_risk_per_trade; and every flagged position of the risk check
\* gets a close request.
C36_RiskClose ==
    (fn.kind = "scan" /\ fn.state = "out") =>
      \A i \in 1..Len(fn.items) :
        LET it == fn.items[i]
        IN /\ fn.flagged[i] <=>
                /\ it.acc.ok /\ it.acc.balance > 0
                /\ it.profit < 0
                /\ Abs(it.profit) * 100
                     > it.acc.balance * MONEY_MANAGEMENT.max_risk_per_trade
           /\ fn.flagged[i] => fn.requested[i]

(* --------------------------- get_risk_summary ------------------------- *)
SummaryAccounts == [ok : BOOLEAN, balance : {0, 100}, margin : {0, 10},
                    margin_free : {0, 10}]
SummaryPositions == [symbol : {"BTCUSD", "ETHUSD"}, profit : {-11, -5, 0, 5}]
SummaryLists == UNION {[1..n -> SummaryPositions] : n \in 0..MaxPos}

RECURSIVE SumPositionProfit(_)
SumPositionProfit(ps) ==
    IF ps = <<>> THEN 0 ELSE Head(ps).profit + SumPositionProfit(Tail(ps))

\* abs(profit) / balance > limit (limit in percent), the ratio being 0
\* when the balance is not positive.
risk_above(profit, balance, limit) ==
    IF balance > 0 THEN Abs(profit) * 100 > balance * limit ELSE FALSE

\* The per-symbol warnings, in the order of get_enabled_symbols.
RECURSIVE symbol_warnings(_, _, _, _)
symbol_warnings(money, acc, all_positions, k) ==
    IF k > Len(get_enabled_symbols) THEN <<>>
    ELSE LET symbol == get_enabled_symbols[k]
             ps == SelectSeq(all_positions, LAMBDA p : p.symbol = symbol)
             rest == symbol_warnings(money, acc, all_positions, k + 1)
         IN IF ps # <<>>
               /\ risk_above(SumPositionProfit(ps), acc.balance,
                             money.max_risk_per_trade * 2)
            THEN <<symbol>> \o rest
            ELSE rest

\* get_risk_summary; ok = FALSE is the empty dict returned without account
\* information.  The margin test is written after the total-risk test and
\* assigns the status again.
get_risk_summary(money, acc, all_positions) ==
    LET total_profit == SumPositionProfit(all_positions)
        high == risk_above(total_profit, acc.balance, money.max_total_risk)
        margin == margin_insufficient(money, acc)
    IN IF ~acc.ok
       THEN [ok |-> FALSE, total_positions |-> 0, total_profit |-> 0,
             risk_status |-> None, warnings |-> <<>>]
       ELSE [ok |-> TRUE, total_positions |-> Len(all_positions),
             total_profit |-> total_profit,
             risk_status |-> IF margin THEN "WARNING"
                             ELSE IF high THEN "HIGH" ELSE "NORMAL",
             warnings |-> (IF high THEN <<"total">> ELSE <<>>)
                          \o (IF margin THEN <<"margin">> ELSE <<>>)
                          \o symbol_warnings(money, acc, all_positions, 1)]

\* The first block of _check_portfolio_risk: "logged" when the status is
\* not NORMAL (with the warnings), "raise" when the summary is the empty
\* dict (risk_summary['risk_status'] is a KeyError), else "quiet".
portfolio_warning_branch(summary) ==
    IF ~summary.ok THEN "raise"
    ELSE IF summary.risk_status # "NORMAL" THEN "logged"
    ELSE "quiet"

InitSummary ==
    /\ mode = "multi"
    /\ strategy = MA_NAME
    /\ \E acc \in SummaryAccounts : \E ps \in SummaryLists :
         fn = [kind |-> "summary", state |-> "in", acc |-> acc,
               all_positions |-> ps,
               summary |-> get_risk_summary(MONEY_MANAGEMENT,
                              [acc EXCEPT !.ok = FALSE], <<>>),
               branch |-> "quiet"]
    /\ InitRest

\* get_risk_summary and the warning block of _check_portfolio_risk.
EvalSummary ==
    /\ fn.kind = "summary" /\ fn.state = "in"
    /\ LET r == get_risk_summary(MONEY_MANAGEMENT, fn.acc, fn.all_positions)
       IN fn' = [fn EXCEPT !.state = "out", !.summary = r,
                           !.branch = portfolio_warning_branch(r)]
    /\ OptFrame

NextSummary ==
    \/ EvalSummary

SpecSummary == InitSummary /\ [][NextSummary]_vars

\* A summary was produced (the account information was available).
SummaryOut == fn.kind = "summary" /\ fn.state = "out" /\ fn.summary.ok

\* C37: the status is HIGH whenever the aggregate risk ratio exceeds
\* max_total_risk, whether or not the free-margin warning fires; WARNING
\* when only the free-margin condition holds; NORMAL when neither holds.
C37_SummaryStatus ==
    SummaryOut =>
      LET high == risk_above(SumPositionProfit(fn.all_positions),
                             fn.acc.balance, MONEY_MANAGEMENT.max_total_risk)
          margin == fn.acc.margin_free * 100
                      < fn.acc.margin * MONEY_MANAGEMENT.min_free_margin_ratio
      IN fn.summary.risk_status =
            IF high THEN "HIGH" ELSE IF margin THEN "WARNING" ELSE "NORMAL"

\* C38: whenever the warning list of the summary is non-empty the status
\* is not NORMAL and the warning block of _check_portfolio_risk is
\* entered.
C38_WarningsReachNotifier ==
    (SummaryOut /\ fn.summary.warnings # <<>>) =>
       (fn.summary.risk_status # "NORMAL" /\ fn.branch = "logged")

(* ------------------ rejected candidates and the live strategy --------- *)
\* C39: when every candidate of an optimization run scored the rejection
\* sentinel -999, the live parameters after the optimization cycle of the
\* automated loop equal the live parameters before it.
C39_RejectedNeverApplied ==
    (fn.kind = "opt" /\ fn.phase = "done" /\ Len(fn.results) > 0
     /\ \A j \in 1..Len(fn.results) :
           fn.results[j].score = Rat(REJECTED, 1))
       => LiveOf(fn.objs) = LiveOf(fn.before)

(* ------------------- close_position and the ledger -------------------- *)
\* C40: a close_position that returns False leaves the open set and the
\* closed list unchanged; one that the broker answered with the done
\* retcode appends exactly one closed record, for its ticket, and removes
\* the ticket from the open set; and no ticket is ever twice in the closed
\* list.
C40_CloseChangesLedgerOnSuccess ==
    [][last'.op = "close_position" =>
        /\ last'.ret = "False" =>
              (open_positions' = open_positions /\ trades' = trades)
        /\ last'.ret = "True" =>
              /\ Len(trades') = Len(trades) + 1
              /\ SubSeq(trades', 1, Len(trades)) = trades
              /\ trades'[Len(trades')].ticket = last'.ticket
              /\ last'.ticket \notin DOMAIN open_positions'
        /\ \A t \in ClosedTickets(trades') : CountIn(trades', t) = 1]_vars

====
